---- MODULE Spec2Model ----
(***************************************************************************)
(* Model of the AudioRecorder of src/backend/engine/audio.py: one caller   *)
(* thread driving start_recording()/stop_recording(), the audio driver's   *)
(* microphone and system callbacks, and the mixer loop threads.            *)
(*                                                                         *)
(* Every `with self._lock:` block of the source is one atomic action.      *)
(* Samples are integers; the k-th sample a microphone callback delivers    *)
(* after a start is k and the k-th system sample is 10*k, so that a        *)
(* dropped, duplicated or mis-paired sample changes the returned buffer.   *)
(*                                                                         *)
(* The SileroVAD of src/backend/engine/vad.py is modelled next to it, with *)
(* variables and a specification of its own (SpecVAD).                     *)
(***************************************************************************)
EXTENDS Integers, Sequences, FiniteSets, TLC

\* AudioRecorder.BUFFER_SIZE (1024 in the source), scaled down.
BUFFER_SIZE == 2

\* deque(maxlen=200) of the waveform window, scaled down.
WAVEFORM_MAXLEN == 2

\* Bounds of the model: samples one source delivers after a start, and the
\* number of start_recording() calls that get past the is_recording guard.
MaxSamples == 3

MaxStarts == 2

\* Under SpecStopFaults: how many stop()/close() try blocks can raise.
MaxStopFaults == 1

VARIABLES
    is_recording,       \* self.is_recording
    mic_stream,         \* self.mic_stream: "none" | "open" | "active"
    system_stream,      \* self.system_stream: "none" | "open" | "active"
    audio_buffer,       \* self.audio_buffer (combined buffer)
    mic_buffer,         \* self.mic_buffer (microphone queue)
    system_buffer,      \* self.system_buffer (system queue)
    waveform_buffer,    \* self.waveform_buffer (waveform window)
    waveform_callback,  \* self.waveform_callback: "none" | "cb"
    mix_audio,          \* self._mix_audio
    use_system,         \* local use_system of the latest start_recording()
                        \* call, captured by the callbacks it creates
    mixers,             \* mixer loop threads alive: [check |-> n, body |-> m]
    leaked,             \* streams still delivering whose handle was dropped
    teardown,           \* what the latest stop()/close() of each source did
    spawned,            \* the latest start_recording() started a mixer thread
    request,            \* what the latest start_recording() call asked for and
                        \* what the device layer answered about the devices
    fault,              \* which stream failed to open in that call
    pc,                 \* position of the caller thread
    result,             \* what the last completed call returned or raised
    micDelivered,       \* samples the mic callbacks delivered since start
    sysDelivered,       \* samples the system callbacks delivered since start
    starts,             \* start_recording() calls that passed the guard
    stop_faults,        \* environment: stop()/close() failures still to come
    lock,               \* self._lock: the thread that holds it between steps
    snapshot,           \* what the latest get_waveform_data() call did
    raising,            \* environment: the amplitude callback may raise
    cb_raised_at,       \* len(audio_buffer) when the amplitude callback last
                        \* raised in this session, 0 if it has not
    reentrant,          \* environment: the amplitude callback may call
                        \* get_waveform_data() on the recorder
    unlocked_write,     \* a buffer was changed by code not holding self._lock
    residue,            \* the latest start_recording() found samples left
                        \* in a buffer by what ran before it
    session,            \* SileroVAD.session: "none" | "loaded"
    state,              \* SileroVAD._state: <<>> for None, <<h>> for a tensor
    audio_stream,       \* the buffer (or, for is_speech, the frame) of the
                        \* latest call into the detector
    padding_ms,         \* its padding_ms argument
    speech_results,     \* the frame decisions the call has collected
    boundaries,         \* what find_speech_boundaries returned: <<start,
                        \* end>>, or <<>>
    vad_call,           \* the latest call into the detector and how it ended
    runs,               \* the session.run() calls it made, in order
    resets,             \* for each time it zeroed the state, how many
                        \* session.run() calls it had made by then
    vad_pc,             \* position of the VAD's caller
    callers,            \* the threads calling the recorder: for each its
                        \* position in start_recording()/stop_recording()
                        \* and what its latest call returned
    app,                \* LocalFlowApp: its own is_recording flag, the main
                        \* key and the positions of its hotkey handlers
    sole_start          \* the session in progress was begun by a
                        \* start_recording() that ran while no other call did

vars == <<is_recording, mic_stream, system_stream, audio_buffer, mic_buffer,
          system_buffer, waveform_buffer, waveform_callback, mix_audio,
          use_system, mixers, leaked, teardown, spawned, request, fault, pc,
          result, micDelivered, sysDelivered, starts, stop_faults, lock,
          snapshot, reentrant, raising, cb_raised_at, unlocked_write,
          residue, session, state,
          audio_stream, padding_ms, speech_results, boundaries, vad_call,
          runs, resets, vad_pc, callers, app, sole_start>>

\* The recorder's own fields and threads (everything but the caller's view).
recorder == <<is_recording, mic_stream, system_stream, audio_buffer, mic_buffer,
              system_buffer, waveform_buffer, waveform_callback, mix_audio,
              mixers, leaked>>

\* The voice activity detector and the call into it.
vad == <<session, state, audio_stream, padding_ms, speech_results,
         boundaries, vad_call, runs, resets, vad_pc>>

\* The recorder, its threads, its callers and its device layer.
capture == <<recorder, use_system, teardown, spawned, request, fault, pc,
             result, micDelivered, sysDelivered, starts, stop_faults, lock,
             snapshot, reentrant, raising, cb_raised_at, unlocked_write,
             residue, callers, app, sole_start>>

\* The threads that call the recorder concurrently and the application above
\* them.
conc == <<callers, app, sole_start>>

None == "none"

Devices == {None, "dev"}

Callbacks == {None, "cb"}

NoTeardown == [mic |-> "none", sys |-> "none"]

NoFault == [mic |-> "none", sys |-> "none"]

NoRequest == [mic |-> "ok", sys |-> "none"]

\* What the device layer answers during one start_recording() call: whether a
\* default input device exists and whether each device can be queried.  The
\* first failing answer decides the call, so one failure at a time is enough.
Envs ==
    {[default_ok |-> TRUE, mic_ok |-> TRUE, sys_ok |-> TRUE],
     [default_ok |-> FALSE, mic_ok |-> TRUE, sys_ok |-> TRUE],
     [default_ok |-> TRUE, mic_ok |-> FALSE, sys_ok |-> TRUE],
     [default_ok |-> TRUE, mic_ok |-> TRUE, sys_ok |-> FALSE]}

NoResult == [op |-> "none", status |-> "none", data |-> <<>>]

NoSnapshot == [from |-> "none", status |-> "none", data |-> <<>>]

NoVadCall == [op |-> "none", status |-> "none", state0 |-> <<>>]

\* The threads that can call the recorder at the same time.  Under the
\* application in hold mode PressThread is the thread on_press starts for
\* _on_hotkey_triggered and Listener is the keyboard listener's thread, which
\* runs on_release.
PressThread == "t1"

Listener == "t2"

Callers == {PressThread, Listener}

\* A thread that has made no call.  passed: its latest call went past the
\* is_recording guard; session: the number of sessions begun when it did;
\* fresh: it was the thread's first stop_recording() of the session, made
\* while no start_recording() was in progress.
NoCall == [pc |-> "idle", op |-> "none", status |-> "none", data |-> <<>>, passed |-> FALSE, session |-> 0, fresh |-> FALSE]

\* LocalFlowApp after __init__ (line 212: is_recording False), no key down.
\* mode "none": no concurrent caller exists; "free": threads call the recorder
\* directly; "hold": the hotkey handlers of hold mode call it.  system_device
\* and mix_audio are what every call passes to start_recording().
NoApp == [mode |-> "none", is_recording |-> FALSE, key |-> "up", presses |-> 0, press |-> "idle", release |-> "idle", system_device |-> FALSE, mix_audio |-> TRUE]

\* SileroVAD.__init__ (no model loaded) with no call made.
VadIdle ==
    /\ session = None
    /\ state = <<>>
    /\ audio_stream = <<>>
    /\ padding_ms = 0
    /\ speech_results = <<>>
    /\ boundaries = <<>>
    /\ vad_call = NoVadCall
    /\ runs = <<>>
    /\ resets = <<>>
    /\ vad_pc = "idle"

----------------------------------------------------------------------------
\* Pure helpers.

Min(a, b) == IF a <= b THEN a ELSE b

Max(a, b) == IF a >= b THEN a ELSE b

Abs(x) == IF x < 0 THEN -x ELSE x

RECURSIVE SumAbs(_)
SumAbs(s) == IF s = <<>> THEN 0 ELSE Abs(Head(s)) + SumAbs(Tail(s))

\* np.abs(chunk).mean(), in integer arithmetic.
Amplitude(chunk) == SumAbs(chunk) \div Len(chunk)

\* Mutant of WaveformAppend: a full window refuses the new entry.
WaveformAppendDropsNewest(w, a) ==
    IF Len(w) >= WAVEFORM_MAXLEN THEN w ELSE Append(w, a)

\* deque(maxlen=WAVEFORM_MAXLEN).append
WaveformAppend(w, a) ==
    IF Len(w) >= WAVEFORM_MAXLEN THEN Append(Tail(w), a) ELSE Append(w, a)

\* [buf.popleft() for _ in range(n)] : the popped chunk and what is left.
PopLeft(buf, n) == SubSeq(buf, 1, n)

Rest(buf, n) == SubSeq(buf, n + 1, Len(buf))

\* Mutant of MixChunks: the system chunk is popped but never added.
MixChunksMicOnly(mic_chunk, system_chunk) ==
    [i \in 1..Len(mic_chunk) |-> mic_chunk[i]]

\* mic_chunk + system_chunk (numpy element-wise addition of equal lengths).
MixChunks(mic_chunk, system_chunk) ==
    [i \in 1..Len(mic_chunk) |-> mic_chunk[i] + system_chunk[i]]

\* The block a driver callback delivers: n samples following the `done`
\* already delivered.
MicBlock(done, n) == [i \in 1..n |-> done + i]

SystemBlock(done, n) == [i \in 1..n |-> 10 * (done + i)]

----------------------------------------------------------------------------
Init ==
    /\ is_recording = FALSE
    /\ mic_stream = None
    /\ system_stream = None
    /\ audio_buffer = <<>>
    /\ mic_buffer = <<>>
    /\ system_buffer = <<>>
    /\ waveform_buffer = <<>>
    /\ waveform_callback = None
    /\ mix_audio = TRUE
    /\ use_system = FALSE
    /\ mixers = [check |-> 0, body |-> 0]
    /\ leaked = {}
    /\ teardown = NoTeardown
    /\ spawned = FALSE
    /\ request = NoRequest
    /\ fault = NoFault
    /\ pc = "idle"
    /\ result = NoResult
    /\ micDelivered = <<>>
    /\ sysDelivered = <<>>
    /\ starts = 0
    /\ stop_faults = 0
    /\ lock = None
    /\ snapshot = NoSnapshot
    /\ reentrant = FALSE
    /\ raising = FALSE
    /\ cb_raised_at = 0
    /\ unlocked_write = FALSE
    /\ residue = FALSE
    /\ VadIdle
    /\ callers = [t \in Callers |-> NoCall]
    /\ app = NoApp
    /\ sole_start = FALSE

----------------------------------------------------------------------------
\* The device layer (sounddevice): what a call into it can do.

\* Outcomes of sd.InputStream(...) followed by stream.start().
OpenOutcomes == {"ok", "create_raises", "start_raises"}

\* Outcomes of stream.stop() followed by stream.close() in one try block.
CloseOutcomes ==
    IF stop_faults > 0 THEN {"ok", "stop_raises", "close_raises"} ELSE {"ok"}

\* An outcome is a failure of the device layer only where a stream exists.
FaultsUsed(handle, o) == IF handle # None /\ o # "ok" THEN 1 ELSE 0

\* The handle after InputStream(...) / start(): the assignment to the handle
\* happens only if the constructor returned.
OpenedHandle(handle, o) ==
    CASE o = "ok" -> "active"
      [] o = "start_raises" -> "open"
      [] OTHER -> handle

\* `if handle: try: stop(); close()`: close() is reached only if stop()
\* returned.  "none": there was no stream; "closed": stopped and closed.
TornDown(handle, o) ==
    IF handle = None THEN "none"
    ELSE IF o = "ok" THEN "closed"
    ELSE o

\* A stream whose stop() raised keeps delivering blocks.
StillRunning(handle, o) == handle = "active" /\ o = "stop_raises"

LeakOf(kind, handle, o) ==
    IF StillRunning(handle, o)
    THEN {[kind |-> kind, use_system |-> use_system]}
    ELSE {}

----------------------------------------------------------------------------
\* start_recording()

\* Mutant of MicResolution: a missing default device is not detected.
MicResolutionNoDefaultCheck(microphone_device, default_ok, mic_ok) ==
    IF ~mic_ok THEN "query" ELSE "none"

\* Lines 135-148: resolving and verifying the microphone device.
MicResolution(microphone_device, default_ok, mic_ok) ==
    IF microphone_device = None /\ ~default_ok THEN "no_default"
    ELSE IF ~mic_ok THEN "query"
    ELSE "none"

\* Lines 133 and 150-157: the system device is used if one was given and it
\* can be queried.
UseSystem(system_audio_device, sys_ok) ==
    system_audio_device # None /\ sys_ok

\* The call as its caller sees it: was a usable microphone there (given, or a
\* default one), and was a system device asked for and could it be queried.
RequestOf(microphone_device, system_audio_device, env) ==
    [mic |-> IF microphone_device = None /\ ~env.default_ok THEN "no_default"
             ELSE IF ~env.mic_ok THEN "unqueryable"
             ELSE "ok",
     sys |-> IF system_audio_device = None THEN "none"
             ELSE IF ~env.sys_ok THEN "unqueryable"
             ELSE "ok"]

\* Mutant of StartNoop: the buffers are cleared before the guard is tested.
StartNoopClearsBuffers ==
    /\ result' = [op |-> "start", status |-> "noop", data |-> <<>>]
    /\ audio_buffer' = <<>>
    /\ mic_buffer' = <<>>
    /\ system_buffer' = <<>>
    /\ waveform_buffer' = <<>>
    /\ UNCHANGED <<is_recording, mic_stream, system_stream, waveform_callback,
                   mix_audio, mixers, leaked, use_system, teardown, spawned,
                   request, fault, pc, micDelivered, sysDelivered, starts>>
    /\ UNCHANGED <<lock, snapshot, reentrant, raising, cb_raised_at>>
    /\ UNCHANGED <<unlocked_write, residue, vad, conc>>

\* Lines 118-120: already recording, the call returns at once.
StartNoop ==
    /\ result' = [op |-> "start", status |-> "noop", data |-> <<>>]
    /\ UNCHANGED <<recorder, use_system, teardown, spawned, request, fault,
                   pc, micDelivered, sysDelivered, starts>>
    /\ UNCHANGED <<lock, snapshot, reentrant, raising, cb_raised_at>>
    /\ UNCHANGED <<unlocked_write, residue, vad, conc>>

\* Mutant of StartBegin: the combined buffer and the queues are not cleared.
StartBeginKeepsBuffers(microphone_device, system_audio_device, mix, cb, env) ==
    LET mf == MicResolution(microphone_device, env.default_ok, env.mic_ok)
        sys_ok == env.sys_ok
    IN
    /\ starts < MaxStarts
    /\ starts' = starts + 1
    /\ waveform_callback' = cb
    /\ mix_audio' = mix
    /\ waveform_buffer' = <<>>
    /\ unlocked_write' = TRUE
    /\ residue' = (audio_buffer \o mic_buffer \o system_buffer
                       \o waveform_buffer # <<>>)
    /\ micDelivered' = <<>>
    /\ sysDelivered' = <<>>
    /\ spawned' = FALSE
    /\ teardown' = NoTeardown
    /\ request' = RequestOf(microphone_device, system_audio_device, env)
    /\ fault' = NoFault
    /\ IF mf # "none"
       THEN /\ use_system' = (system_audio_device # None)
            /\ result' = [op |-> "start", status |-> "raised", data |-> <<>>]
            /\ pc' = "idle"
       ELSE /\ use_system' = UseSystem(system_audio_device, sys_ok)
            /\ result' = NoResult
            /\ pc' = "start_mic"
    /\ UNCHANGED <<is_recording, mic_stream, system_stream, mixers, leaked,
                   stop_faults, audio_buffer, mic_buffer, system_buffer>>
    /\ cb_raised_at' = 0
    /\ UNCHANGED <<lock, snapshot, reentrant, raising, vad, conc>>

\* Lines 122-157: store the arguments, clear the buffers, choose the devices.
StartBegin(microphone_device, system_audio_device, mix, cb, env) ==
    LET mf == MicResolution(microphone_device, env.default_ok, env.mic_ok)
        sys_ok == env.sys_ok
    IN
    /\ starts < MaxStarts
    /\ starts' = starts + 1
    /\ waveform_callback' = cb
    /\ mix_audio' = mix
    /\ audio_buffer' = <<>>
    /\ mic_buffer' = <<>>
    /\ system_buffer' = <<>>
    /\ waveform_buffer' = <<>>
    /\ unlocked_write' = TRUE
    /\ residue' = (audio_buffer \o mic_buffer \o system_buffer
                       \o waveform_buffer # <<>>)
    /\ micDelivered' = <<>>
    /\ sysDelivered' = <<>>
    /\ spawned' = FALSE
    /\ teardown' = NoTeardown
    /\ request' = RequestOf(microphone_device, system_audio_device, env)
    /\ fault' = NoFault
    /\ IF mf # "none"
       THEN /\ use_system' = (system_audio_device # None)
            /\ result' = [op |-> "start", status |-> "raised", data |-> <<>>]
            /\ pc' = "idle"
       ELSE /\ use_system' = UseSystem(system_audio_device, sys_ok)
            /\ result' = NoResult
            /\ pc' = "start_mic"
    /\ UNCHANGED <<is_recording, mic_stream, system_stream, mixers, leaked,
                   stop_faults>>
    /\ cb_raised_at' = 0
    /\ UNCHANGED <<lock, snapshot, reentrant, raising, vad, conc>>

StartCall(microphone_device, system_audio_device, mix, cb, env) ==
    /\ pc = "idle"
    /\ IF is_recording
       THEN StartNoop /\ UNCHANGED stop_faults
       ELSE StartBegin(microphone_device, system_audio_device, mix, cb, env)

\* Lines 243-254: create and start the microphone stream.
StartMic(o) ==
    /\ pc = "start_mic"
    /\ mic_stream' = OpenedHandle(mic_stream, o)
    /\ fault' = IF o = "ok" THEN fault
                ELSE [fault EXCEPT !.mic = IF o = "create_raises"
                                           THEN "create" ELSE "start"]
    /\ pc' = IF o # "ok" THEN "rollback"
             ELSE IF use_system THEN "start_sys" ELSE "start_flag"
    /\ UNCHANGED <<is_recording, system_stream, audio_buffer, mic_buffer,
                   system_buffer, waveform_buffer, waveform_callback,
                   mix_audio, use_system, mixers, leaked, teardown, spawned,
                   request, result, micDelivered, sysDelivered, starts,
                   stop_faults>>
    /\ UNCHANGED <<lock, snapshot, reentrant, raising, cb_raised_at>>
    /\ UNCHANGED <<unlocked_write, residue, vad, conc>>

\* Mutant of StartsMixer: the thread is started whenever the system stream is.
StartsMixerIgnoresMix == use_system

\* Line 271: the mixer thread is started when mixing two sources.
StartsMixer == mix_audio /\ use_system

\* Lines 257-274: create and start the system stream, then the mixer thread.
StartSys(o) ==
    /\ pc = "start_sys"
    /\ system_stream' = OpenedHandle(system_stream, o)
    /\ fault' = IF o = "ok" THEN fault
                ELSE [fault EXCEPT !.sys = IF o = "create_raises"
                                           THEN "create" ELSE "start"]
    /\ IF o = "ok" /\ StartsMixer
       THEN /\ mixers' = [mixers EXCEPT !.check = @ + 1]
            /\ spawned' = TRUE
       ELSE UNCHANGED <<mixers, spawned>>
    /\ pc' = IF o = "ok" THEN "start_flag" ELSE "rollback"
    /\ UNCHANGED <<is_recording, mic_stream, audio_buffer, mic_buffer,
                   system_buffer, waveform_buffer, waveform_callback,
                   mix_audio, use_system, leaked, teardown, request, result,
                   micDelivered, sysDelivered, starts, stop_faults>>
    /\ UNCHANGED <<lock, snapshot, reentrant, raising, cb_raised_at>>
    /\ UNCHANGED <<unlocked_write, residue, vad, conc>>

\* Lines 276-277.
StartFinish ==
    /\ pc = "start_flag"
    /\ is_recording' = TRUE
    /\ result' = [op |-> "start", status |-> "ok", data |-> <<>>]
    /\ pc' = "idle"
    /\ UNCHANGED <<mic_stream, system_stream, audio_buffer, mic_buffer,
                   system_buffer, waveform_buffer, waveform_callback,
                   mix_audio, use_system, mixers, leaked, teardown, spawned,
                   request, fault, micDelivered, sysDelivered, starts,
                   stop_faults>>
    /\ UNCHANGED <<lock, snapshot, reentrant, raising, cb_raised_at>>
    /\ UNCHANGED <<unlocked_write, residue, vad, conc>>

\* Mutant of Rollback: only the stream that failed is cleaned up, a
\* microphone stream opened before it is left as it is.
RollbackFailedStreamOnly(mo, so) ==
    /\ pc = "rollback"
    /\ FaultsUsed(system_stream, so) <= stop_faults
    /\ stop_faults' = stop_faults - FaultsUsed(system_stream, so)
    /\ mic_stream' = IF fault.mic # "none" THEN None ELSE mic_stream
    /\ system_stream' = None
    /\ teardown' = [mic |-> IF fault.mic # "none"
                            THEN TornDown(mic_stream, mo) ELSE "none",
                     sys |-> TornDown(system_stream, so)]
    /\ leaked' = leaked \cup LeakOf("sys", system_stream, so)
    /\ result' = [op |-> "start", status |-> "raised", data |-> <<>>]
    /\ pc' = "idle"
    /\ UNCHANGED <<is_recording, audio_buffer, mic_buffer, system_buffer,
                   waveform_buffer, waveform_callback, mix_audio, use_system,
                   mixers, spawned, request, fault, micDelivered,
                   sysDelivered, starts>>
    /\ UNCHANGED <<lock, snapshot, reentrant, raising, cb_raised_at>>
    /\ UNCHANGED <<unlocked_write, residue, vad, conc>>

\* Lines 278-295: clean up on error and re-raise.
Rollback(mo, so) ==
    /\ pc = "rollback"
    /\ FaultsUsed(mic_stream, mo) + FaultsUsed(system_stream, so) <= stop_faults
    /\ stop_faults' = stop_faults - FaultsUsed(mic_stream, mo)
                                   - FaultsUsed(system_stream, so)
    /\ mic_stream' = None
    /\ system_stream' = None
    /\ teardown' = [mic |-> TornDown(mic_stream, mo),
                     sys |-> TornDown(system_stream, so)]
    /\ leaked' = leaked \cup LeakOf("mic", mic_stream, mo)
                        \cup LeakOf("sys", system_stream, so)
    /\ result' = [op |-> "start", status |-> "raised", data |-> <<>>]
    /\ pc' = "idle"
    /\ UNCHANGED <<is_recording, audio_buffer, mic_buffer, system_buffer,
                   waveform_buffer, waveform_callback, mix_audio, use_system,
                   mixers, spawned, request, fault, micDelivered,
                   sysDelivered, starts>>
    /\ UNCHANGED <<lock, snapshot, reentrant, raising, cb_raised_at>>
    /\ UNCHANGED <<unlocked_write, residue, vad, conc>>

----------------------------------------------------------------------------
\* Driver callbacks and the mixer loop.

\* The closures of the microphone streams that are delivering blocks: each is
\* the use_system its start_recording() call captured.
ActiveMicClosures ==
    (IF mic_stream = "active" THEN {use_system} ELSE {})
        \cup {l.use_system : l \in {x \in leaked : x.kind = "mic"}}

SystemDelivering ==
    system_stream = "active" \/ \E l \in leaked : l.kind = "sys"

\* What an amplitude callback does when it is invoked: it returns, or (where
\* the environment allows it) it calls get_waveform_data() on the recorder.
CallbackReads == IF reentrant THEN {FALSE, TRUE} ELSE {FALSE}

\* Whether an invoked amplitude callback returns or (where the environment
\* allows it) raises an Exception.
CallbackRaises == IF raising THEN {FALSE, TRUE} ELSE {FALSE}

\* Mutant of InvokeWaveformCallback: an exception of the callback leaves the
\* block without the lock being released.
InvokeWaveformCallbackKeepsLock(thread) ==
    \E reads \in CallbackReads, raises \in CallbackRaises :
        IF waveform_callback # None /\ reads
        THEN /\ lock' = thread
             /\ snapshot' = [from |-> thread, status |-> "waiting",
                             data |-> <<>>]
             /\ UNCHANGED cb_raised_at
        ELSE IF waveform_callback # None /\ raises
        THEN /\ cb_raised_at' = Len(audio_buffer')
             /\ lock' = thread
             /\ UNCHANGED snapshot
        ELSE UNCHANGED <<lock, snapshot, cb_raised_at>>

\* Lines 181-185 and 229-233: `thread`, inside its `with self._lock` block
\* and after it has extended the combined buffer and the waveform window,
\* invokes the amplitude callback if one is set.  A callback that calls
\* get_waveform_data() waits at line 385 for the threading.Lock its own
\* thread holds, so the block is never left and the lock never released.  An
\* Exception the callback raises is caught and logged, and the block ends.
InvokeWaveformCallback(thread) ==
    \E reads \in CallbackReads, raises \in CallbackRaises :
        IF waveform_callback # None /\ reads
        THEN /\ lock' = thread
             /\ snapshot' = [from |-> thread, status |-> "waiting",
                             data |-> <<>>]
             /\ UNCHANGED cb_raised_at
        ELSE IF waveform_callback # None /\ raises
        THEN /\ cb_raised_at' = Len(audio_buffer')
             /\ UNCHANGED <<lock, snapshot>>
        ELSE UNCHANGED <<lock, snapshot, cb_raised_at>>

\* Mutant of ToMixer: the mix flag is not consulted.
ToMixerIgnoresMixFlag(closure_use_system) == closure_use_system

\* Line 173: the microphone block goes to the mixer's queue.
ToMixer(closure_use_system) == closure_use_system /\ mix_audio

\* Lines 159-185: mic_callback with a block of n samples.
MicCallback(closure_use_system, n) ==
    LET audio_data == MicBlock(Len(micDelivered), n) IN
    /\ closure_use_system \in ActiveMicClosures
    /\ Len(micDelivered) + n <= MaxSamples
    /\ lock = None
    /\ micDelivered' = micDelivered \o audio_data
    /\ IF ToMixer(closure_use_system)
       THEN /\ mic_buffer' = mic_buffer \o audio_data
            /\ UNCHANGED <<audio_buffer, waveform_buffer, lock, snapshot,
                           cb_raised_at>>
       ELSE /\ audio_buffer' = audio_buffer \o audio_data
            /\ waveform_buffer' =
                   WaveformAppend(waveform_buffer, Amplitude(audio_data))
            /\ InvokeWaveformCallback("mic_callback")
            /\ UNCHANGED mic_buffer
    /\ UNCHANGED <<is_recording, mic_stream, system_stream, system_buffer,
                   waveform_callback, mix_audio, use_system, mixers, leaked,
                   teardown, spawned, request, fault, pc, result,
                   sysDelivered, starts, stop_faults>>
    /\ UNCHANGED <<reentrant, raising, unlocked_write, residue, vad, conc>>

\* Lines 187-200: system_callback with a block of n samples.
SystemCallback(n) ==
    LET audio_data == SystemBlock(Len(sysDelivered), n) IN
    /\ SystemDelivering
    /\ Len(sysDelivered) + n <= MaxSamples
    /\ lock = None
    /\ sysDelivered' = sysDelivered \o audio_data
    /\ system_buffer' = system_buffer \o audio_data
    /\ UNCHANGED <<is_recording, mic_stream, system_stream, audio_buffer,
                   mic_buffer, waveform_buffer, waveform_callback, mix_audio,
                   use_system, mixers, leaked, teardown, spawned, request,
                   fault, pc, result, micDelivered, starts, stop_faults>>
    /\ UNCHANGED <<lock, snapshot, reentrant, raising, cb_raised_at>>
    /\ UNCHANGED <<unlocked_write, residue, vad, conc>>

\* Line 205: `while self.is_recording`, read without the lock; a thread that
\* reads False ends.
MixerCheck ==
    /\ mixers.check > 0
    /\ mixers' = IF is_recording
                 THEN [check |-> mixers.check - 1, body |-> mixers.body + 1]
                 ELSE [mixers EXCEPT !.check = @ - 1]
    /\ UNCHANGED <<is_recording, mic_stream, system_stream, audio_buffer,
                   mic_buffer, system_buffer, waveform_buffer,
                   waveform_callback, mix_audio, use_system, leaked, teardown,
                   spawned, request, fault, pc, result, micDelivered,
                   sysDelivered, starts, stop_faults>>
    /\ UNCHANGED <<lock, snapshot, reentrant, raising, cb_raised_at>>
    /\ UNCHANGED <<unlocked_write, residue, vad, conc>>

\* Line 209: a chunk is mixed when both queues hold one.
ChunkReady ==
    Len(mic_buffer) >= BUFFER_SIZE /\ Len(system_buffer) >= BUFFER_SIZE

\* Lines 206-239: one pass of the loop body (the critical section, then the
\* wait or clear), back to the loop test.
MixerBody ==
    LET mixed == MixChunks(PopLeft(mic_buffer, BUFFER_SIZE),
                           PopLeft(system_buffer, BUFFER_SIZE))
    IN
    /\ mixers.body > 0
    /\ lock = None
    /\ IF ChunkReady
       THEN /\ mic_buffer' = Rest(mic_buffer, BUFFER_SIZE)
            /\ system_buffer' = Rest(system_buffer, BUFFER_SIZE)
            /\ audio_buffer' = audio_buffer \o mixed
            /\ waveform_buffer' =
                   WaveformAppend(waveform_buffer, Amplitude(mixed))
            /\ InvokeWaveformCallback("mix_audio_thread")
       ELSE UNCHANGED <<mic_buffer, system_buffer, audio_buffer,
                        waveform_buffer, lock, snapshot, cb_raised_at>>
    /\ mixers' = IF lock' = None
                 THEN [check |-> mixers.check + 1, body |-> mixers.body - 1]
                 ELSE mixers
    /\ UNCHANGED <<is_recording, mic_stream, system_stream, waveform_callback,
                   mix_audio, use_system, leaked, teardown, spawned, request,
                   fault, pc, result, micDelivered, sysDelivered, starts,
                   stop_faults>>
    /\ UNCHANGED <<reentrant, raising, unlocked_write, residue, vad, conc>>

----------------------------------------------------------------------------
\* stop_recording()

\* Mutant of StopNoop: the is_recording guard is missing and the call goes on
\* to stop the streams and flush.
StopNoopMissingGuard ==
    /\ result' = NoResult
    /\ teardown' = NoTeardown
    /\ pc' = "stop_mic"
    /\ UNCHANGED <<recorder, use_system, spawned, request, fault,
                   micDelivered, sysDelivered, starts>>
    /\ UNCHANGED <<lock, snapshot, reentrant, raising, cb_raised_at>>
    /\ UNCHANGED <<unlocked_write, residue, vad, conc>>

\* Lines 303-305: not recording, an empty array is returned.
StopNoop ==
    /\ result' = [op |-> "stop", status |-> "noop", data |-> <<>>]
    /\ UNCHANGED <<recorder, use_system, teardown, spawned, request, fault,
                   pc, micDelivered, sysDelivered, starts>>
    /\ UNCHANGED <<lock, snapshot, reentrant, raising, cb_raised_at>>
    /\ UNCHANGED <<unlocked_write, residue, vad, conc>>

\* Mutant of StopBegin: is_recording is left set while the streams are
\* stopped.
StopBeginStaysRecording ==
    /\ result' = NoResult
    /\ teardown' = NoTeardown
    /\ pc' = "stop_mic"
    /\ UNCHANGED <<recorder, use_system, spawned, request, fault,
                   micDelivered, sysDelivered, starts>>
    /\ UNCHANGED <<lock, snapshot, reentrant, raising, cb_raised_at>>
    /\ UNCHANGED <<unlocked_write, residue, vad, conc>>

\* Lines 307-308.
StopBegin ==
    /\ is_recording' = FALSE
    /\ result' = NoResult
    /\ teardown' = NoTeardown
    /\ pc' = "stop_mic"
    /\ UNCHANGED <<mic_stream, system_stream, audio_buffer, mic_buffer,
                   system_buffer, waveform_buffer, waveform_callback,
                   mix_audio, use_system, mixers, leaked, spawned, request,
                   fault, micDelivered, sysDelivered, starts>>
    /\ UNCHANGED <<lock, snapshot, reentrant, raising, cb_raised_at>>
    /\ UNCHANGED <<unlocked_write, residue, vad, conc>>

StopCall ==
    /\ pc = "idle"
    /\ (IF is_recording THEN StopBegin ELSE StopNoop)
    /\ UNCHANGED stop_faults

\* Mutant of StopMic: the try block has no except clause, so a stop() or
\* close() that raises ends stop_recording() with that exception (the handle
\* is still dropped by the finally clause).
StopMicRaises(o) ==
    /\ pc = "stop_mic"
    /\ stop_faults' = stop_faults - FaultsUsed(mic_stream, o)
    /\ mic_stream' = None
    /\ teardown' = [teardown EXCEPT !.mic = TornDown(mic_stream, o)]
    /\ leaked' = leaked \cup LeakOf("mic", mic_stream, o)
    /\ IF FaultsUsed(mic_stream, o) = 1
       THEN /\ pc' = "idle"
            /\ result' = [op |-> "stop", status |-> "raised", data |-> <<>>]
       ELSE /\ pc' = "stop_sys"
            /\ UNCHANGED result
    /\ UNCHANGED <<is_recording, system_stream, audio_buffer, mic_buffer,
                   system_buffer, waveform_buffer, waveform_callback,
                   mix_audio, use_system, mixers, spawned, request, fault,
                   micDelivered, sysDelivered, starts>>
    /\ UNCHANGED <<lock, snapshot, reentrant, raising, cb_raised_at>>
    /\ UNCHANGED <<unlocked_write, residue, vad, conc>>

\* Lines 310-321: stop and close the microphone stream, drop the handle.
StopMic(o) ==
    /\ pc = "stop_mic"
    /\ stop_faults' = stop_faults - FaultsUsed(mic_stream, o)
    /\ mic_stream' = None
    /\ teardown' = [teardown EXCEPT !.mic = TornDown(mic_stream, o)]
    /\ leaked' = leaked \cup LeakOf("mic", mic_stream, o)
    /\ pc' = "stop_sys"
    /\ UNCHANGED <<is_recording, system_stream, audio_buffer, mic_buffer,
                   system_buffer, waveform_buffer, waveform_callback,
                   mix_audio, use_system, mixers, spawned, request, fault,
                   result, micDelivered, sysDelivered, starts>>
    /\ UNCHANGED <<lock, snapshot, reentrant, raising, cb_raised_at>>
    /\ UNCHANGED <<unlocked_write, residue, vad, conc>>

\* Lines 323-334: stop and close the system stream, drop the handle.  (The
\* legacy self.stream of lines 336-346 is never assigned.)
StopSys(o) ==
    /\ pc = "stop_sys"
    /\ stop_faults' = stop_faults - FaultsUsed(system_stream, o)
    /\ system_stream' = None
    /\ teardown' = [teardown EXCEPT !.sys = TornDown(system_stream, o)]
    /\ leaked' = leaked \cup LeakOf("sys", system_stream, o)
    /\ pc' = "stop_flush"
    /\ UNCHANGED <<is_recording, mic_stream, audio_buffer, mic_buffer,
                   system_buffer, waveform_buffer, waveform_callback,
                   mix_audio, use_system, mixers, spawned, request, fault,
                   result, micDelivered, sysDelivered, starts>>
    /\ UNCHANGED <<lock, snapshot, reentrant, raising, cb_raised_at>>
    /\ UNCHANGED <<unlocked_write, residue, vad, conc>>

\* Lines 351-356: the paired residual, mixed.
PairedResidual(mic, sys) ==
    LET min_len == Min(Len(mic), Len(sys)) IN
    MixChunks(PopLeft(mic, min_len), PopLeft(sys, min_len))

\* Mutant of FinalMix: the leftover microphone samples are appended before
\* the mixed run.
FinalMixLeftoverFirst(mix, mic, sys) ==
    LET paired == mix /\ Len(mic) > 0 /\ Len(sys) > 0
        min_len == IF paired THEN Min(Len(mic), Len(sys)) ELSE 0
        mic_left == Rest(mic, min_len)
    IN  (IF mix /\ Len(mic_left) > 0 THEN mic_left ELSE <<>>)
            \o (IF paired THEN PairedResidual(mic, sys) ELSE <<>>)

\* Mutant of FinalMix: the leftover microphone samples are not appended.
FinalMixDropsLeftover(mix, mic, sys) ==
    LET paired == mix /\ Len(mic) > 0 /\ Len(sys) > 0
    IN  IF paired THEN PairedResidual(mic, sys) ELSE <<>>

\* Lines 351-362: what the final mix appends to the combined buffer.
FinalMix(mix, mic, sys) ==
    LET paired == mix /\ Len(mic) > 0 /\ Len(sys) > 0
        min_len == IF paired THEN Min(Len(mic), Len(sys)) ELSE 0
        mic_left == Rest(mic, min_len)
    IN  (IF paired THEN PairedResidual(mic, sys) ELSE <<>>)
            \o (IF mix /\ Len(mic_left) > 0 THEN mic_left ELSE <<>>)

\* Lines 348-377: the final mix, the buffers swapped out and cleared, the
\* captured audio returned.
StopFlush ==
    /\ pc = "stop_flush"
    /\ lock = None
    /\ result' = [op |-> "stop", status |-> "ok",
                  data |-> audio_buffer \o FinalMix(mix_audio, mic_buffer,
                                                    system_buffer)]
    /\ audio_buffer' = <<>>
    /\ mic_buffer' = <<>>
    /\ system_buffer' = <<>>
    /\ waveform_buffer' = <<>>
    /\ pc' = "idle"
    /\ UNCHANGED <<is_recording, mic_stream, system_stream, waveform_callback,
                   mix_audio, use_system, mixers, leaked, teardown, spawned,
                   request, fault, micDelivered, sysDelivered, starts,
                   stop_faults>>
    /\ UNCHANGED <<lock, snapshot, reentrant, raising, cb_raised_at>>
    /\ UNCHANGED <<unlocked_write, residue, vad, conc>>

----------------------------------------------------------------------------
Next ==
    \/ \E md \in Devices, sd \in Devices, mix \in BOOLEAN, cb \in Callbacks,
          env \in Envs : StartCall(md, sd, mix, cb, env)
    \/ \E o \in OpenOutcomes : StartMic(o)
    \/ \E o \in OpenOutcomes : StartSys(o)
    \/ StartFinish
    \/ \E mo \in CloseOutcomes, so \in CloseOutcomes : Rollback(mo, so)
    \/ \E c \in BOOLEAN, n \in 1..BUFFER_SIZE : MicCallback(c, n)
    \/ \E n \in 1..BUFFER_SIZE : SystemCallback(n)
    \/ MixerCheck
    \/ MixerBody
    \/ StopCall
    \/ \E o \in CloseOutcomes : StopMic(o)
    \/ \E o \in CloseOutcomes : StopSys(o)
    \/ StopFlush

\* The device layer keeps its contract: stop() and close() do not raise.
Spec == Init /\ [][Next]_vars

\* The same recorder over a device layer whose stop() and close() can raise.
InitStopFaults ==
    /\ is_recording = FALSE
    /\ mic_stream = None
    /\ system_stream = None
    /\ audio_buffer = <<>>
    /\ mic_buffer = <<>>
    /\ system_buffer = <<>>
    /\ waveform_buffer = <<>>
    /\ waveform_callback = None
    /\ mix_audio = TRUE
    /\ use_system = FALSE
    /\ mixers = [check |-> 0, body |-> 0]
    /\ leaked = {}
    /\ teardown = NoTeardown
    /\ spawned = FALSE
    /\ request = NoRequest
    /\ fault = NoFault
    /\ pc = "idle"
    /\ result = NoResult
    /\ micDelivered = <<>>
    /\ sysDelivered = <<>>
    /\ starts = 0
    /\ stop_faults = MaxStopFaults
    /\ lock = None
    /\ snapshot = NoSnapshot
    /\ reentrant = FALSE
    /\ raising = FALSE
    /\ cb_raised_at = 0
    /\ unlocked_write = FALSE
    /\ residue = FALSE
    /\ VadIdle
    /\ callers = [t \in Callers |-> NoCall]
    /\ app = NoApp
    /\ sole_start = FALSE

SpecStopFaults == InitStopFaults /\ [][Next]_vars

\* The same recorder with an application whose amplitude callback can raise.
InitCallbackRaises ==
    /\ is_recording = FALSE
    /\ mic_stream = None
    /\ system_stream = None
    /\ audio_buffer = <<>>
    /\ mic_buffer = <<>>
    /\ system_buffer = <<>>
    /\ waveform_buffer = <<>>
    /\ waveform_callback = None
    /\ mix_audio = TRUE
    /\ use_system = FALSE
    /\ mixers = [check |-> 0, body |-> 0]
    /\ leaked = {}
    /\ teardown = NoTeardown
    /\ spawned = FALSE
    /\ request = NoRequest
    /\ fault = NoFault
    /\ pc = "idle"
    /\ result = NoResult
    /\ micDelivered = <<>>
    /\ sysDelivered = <<>>
    /\ starts = 0
    /\ stop_faults = 0
    /\ lock = None
    /\ snapshot = NoSnapshot
    /\ reentrant = FALSE
    /\ raising = TRUE
    /\ cb_raised_at = 0
    /\ unlocked_write = FALSE
    /\ residue = FALSE
    /\ VadIdle
    /\ callers = [t \in Callers |-> NoCall]
    /\ app = NoApp
    /\ sole_start = FALSE

SpecCallbackRaises == InitCallbackRaises /\ [][Next]_vars

----------------------------------------------------------------------------
\* get_waveform_data(), called from a thread of the application.

\* Lines 379-386: with the lock free the call copies the window and returns;
\* with the lock held by a thread that never leaves its block, it waits.
GetWaveformData ==
    /\ snapshot.status # "waiting"
    /\ snapshot' = IF lock = None
                   THEN [from |-> "caller", status |-> "returned",
                         data |-> waveform_buffer]
                   ELSE [from |-> "caller", status |-> "waiting",
                         data |-> <<>>]
    /\ UNCHANGED <<recorder, use_system, teardown, spawned, request, fault,
                   pc, result, micDelivered, sysDelivered, starts,
                   stop_faults, lock, reentrant, raising, cb_raised_at,
                   unlocked_write, residue, vad, conc>>

NextWaveform ==
    \/ \E md \in Devices, sd \in Devices, mix \in BOOLEAN, cb \in Callbacks,
          env \in Envs : StartCall(md, sd, mix, cb, env)
    \/ \E o \in OpenOutcomes : StartMic(o)
    \/ \E o \in OpenOutcomes : StartSys(o)
    \/ StartFinish
    \/ \E mo \in CloseOutcomes, so \in CloseOutcomes : Rollback(mo, so)
    \/ \E c \in BOOLEAN, n \in 1..BUFFER_SIZE : MicCallback(c, n)
    \/ \E n \in 1..BUFFER_SIZE : SystemCallback(n)
    \/ MixerCheck
    \/ MixerBody
    \/ StopCall
    \/ \E o \in CloseOutcomes : StopMic(o)
    \/ \E o \in CloseOutcomes : StopSys(o)
    \/ StopFlush
    \/ GetWaveformData

\* The recorder with an application that reads the waveform window, from its
\* own threads and from inside the amplitude callback it registered.
InitWaveform ==
    /\ is_recording = FALSE
    /\ mic_stream = None
    /\ system_stream = None
    /\ audio_buffer = <<>>
    /\ mic_buffer = <<>>
    /\ system_buffer = <<>>
    /\ waveform_buffer = <<>>
    /\ waveform_callback = None
    /\ mix_audio = TRUE
    /\ use_system = FALSE
    /\ mixers = [check |-> 0, body |-> 0]
    /\ leaked = {}
    /\ teardown = NoTeardown
    /\ spawned = FALSE
    /\ request = NoRequest
    /\ fault = NoFault
    /\ pc = "idle"
    /\ result = NoResult
    /\ micDelivered = <<>>
    /\ sysDelivered = <<>>
    /\ starts = 0
    /\ stop_faults = 0
    /\ lock = None
    /\ snapshot = NoSnapshot
    /\ reentrant = TRUE
    /\ raising = FALSE
    /\ cb_raised_at = 0
    /\ unlocked_write = FALSE
    /\ residue = FALSE
    /\ VadIdle
    /\ callers = [t \in Callers |-> NoCall]
    /\ app = NoApp
    /\ sole_start = FALSE

SpecWaveform == InitWaveform /\ [][NextWaveform]_vars

\* Fair scheduling of the mixer threads: a thread that can take its next step
\* (the loop test, or the loop body once the lock is free) takes it.
SpecFair ==
    Init /\ [][Next]_vars /\ WF_vars(MixerCheck) /\ WF_vars(MixerBody)

\* SpecWaveform under the same fair scheduling of the mixer threads.
SpecWaveformFair ==
    InitWaveform /\ [][NextWaveform]_vars /\ WF_vars(MixerCheck) /\ WF_vars(MixerBody)

----------------------------------------------------------------------------
\* start_recording() and stop_recording() called from several threads.
\* Neither method takes a lock around its is_recording test or around the
\* stream handles, so each thread has its own position and the steps of two
\* calls interleave.  Every call passes the same arguments (the application's
\* configuration), the device layer keeps its contract (opening, stopping and
\* closing a stream succeed) and no amplitude callback is installed.

\* The hotkey presses of one run.
MaxPresses == 1

\* What the actions of concurrent callers leave alone: the single caller's view
\* and the environment of the other specifications.
single == <<teardown, spawned, request, fault, pc, result, stop_faults, lock, snapshot, reentrant, raising, cb_raised_at, unlocked_write, residue, vad>>

StartPcs == {"start_mic", "start_sys", "start_flag"}

StopPcs == {"stop_flag", "stop_mic", "stop_sys", "stop_flush"}

\* Thread t is at the first statement of the method: called by a handler of
\* the application, or free to call at any time.
Entered(t, entry) == app.mode # "none" /\ callers[t].pc = (IF app.mode = "hold" THEN entry ELSE "idle")

\* Where a thread is when the method has returned.
ReturnPc == IF app.mode = "hold" THEN "returned" ELSE "idle"

Return(op, status, data, passed, fresh) == [pc |-> ReturnPc, op |-> op, status |-> status, data |-> data, passed |-> passed, session |-> starts, fresh |-> fresh]

\* Thread t has already called stop_recording() in this session.
StoppedBefore(t) == callers[t].op = "stop" /\ callers[t].session = starts

\* A stop_recording() that thread t enters now is its first of a session that
\* one start_recording() began, and no thread is inside start_recording().
FreshStop(t) == ~StoppedBefore(t) /\ sole_start /\ \A u \in Callers : callers[u].pc \notin {"start_mic", "start_sys", "start_flag"}

\* Lines 118-129: the is_recording test, then the fields stored and the
\* buffers cleared; use_system is the call's local (lines 131-157).
StartRecordingEnter(t) ==
    /\ Entered(t, "start_entry")
    /\ IF is_recording
       THEN /\ callers' = [callers EXCEPT ![t] = Return("start", "noop", <<>>, FALSE, FALSE)]
            /\ UNCHANGED <<audio_buffer, mic_buffer, system_buffer,
                           waveform_buffer, waveform_callback, mix_audio,
                           use_system, micDelivered, sysDelivered, starts,
                           sole_start>>
       ELSE /\ starts < MaxStarts
            /\ sole_start' = \A u \in Callers \ {t} : callers[u].pc \in {"idle", "returned"}
            /\ starts' = starts + 1
            /\ waveform_callback' = None
            /\ mix_audio' = app.mix_audio
            /\ use_system' = app.system_device
            /\ audio_buffer' = <<>>
            /\ mic_buffer' = <<>>
            /\ system_buffer' = <<>>
            /\ waveform_buffer' = <<>>
            /\ micDelivered' = <<>>
            /\ sysDelivered' = <<>>
            /\ callers' = [callers EXCEPT ![t] = [pc |-> "start_mic", op |-> "start", status |-> "none", data |-> <<>>, passed |-> TRUE, session |-> starts + 1, fresh |-> FALSE]]
    /\ UNCHANGED <<is_recording, mic_stream, system_stream, mixers, leaked, app>>
    /\ UNCHANGED single

\* Lines 243-254: a microphone stream is created, assigned to self.mic_stream
\* and started.  A stream the handle held before is not stopped: it keeps
\* delivering with no handle left to it.
StartRecordingMic(t) ==
    /\ callers[t].pc = "start_mic"
    /\ mic_stream' = OpenedHandle(mic_stream, "ok")
    /\ leaked' = leaked \cup LeakOf("mic", mic_stream, "stop_raises")
    /\ callers' = [callers EXCEPT ![t].pc = IF use_system THEN "start_sys" ELSE "start_flag"]
    /\ UNCHANGED <<is_recording, system_stream, audio_buffer, mic_buffer,
                   system_buffer, waveform_buffer, waveform_callback,
                   mix_audio, use_system, mixers, micDelivered, sysDelivered,
                   starts, app, sole_start>>
    /\ UNCHANGED single

\* Lines 257-274: the same for the system stream, then the mixer thread.
StartRecordingSys(t) ==
    /\ callers[t].pc = "start_sys"
    /\ system_stream' = OpenedHandle(system_stream, "ok")
    /\ leaked' = leaked \cup LeakOf("sys", system_stream, "stop_raises")
    /\ mixers' = IF StartsMixer THEN [mixers EXCEPT !.check = @ + 1] ELSE mixers
    /\ callers' = [callers EXCEPT ![t].pc = "start_flag"]
    /\ UNCHANGED <<is_recording, mic_stream, audio_buffer, mic_buffer,
                   system_buffer, waveform_buffer, waveform_callback,
                   mix_audio, use_system, micDelivered, sysDelivered, starts,
                   app, sole_start>>
    /\ UNCHANGED single

\* Lines 276-277.
StartRecordingFlag(t) ==
    /\ callers[t].pc = "start_flag"
    /\ is_recording' = TRUE
    /\ callers' = [callers EXCEPT ![t].pc = ReturnPc, ![t].status = "ok"]
    /\ UNCHANGED <<mic_stream, system_stream, audio_buffer, mic_buffer,
                   system_buffer, waveform_buffer, waveform_callback,
                   mix_audio, use_system, mixers, leaked, micDelivered,
                   sysDelivered, starts, app, sole_start>>
    /\ UNCHANGED single

\* Lines 302-304: the is_recording test; a call that reads False returns an
\* empty buffer.
StopRecordingEnter(t) ==
    /\ Entered(t, "stop_entry")
    /\ callers' = [callers EXCEPT ![t] = IF is_recording
                                        THEN [pc |-> "stop_flag", op |-> "stop", status |-> "none", data |-> <<>>, passed |-> TRUE, session |-> starts, fresh |-> FreshStop(t)]
                                        ELSE Return("stop", "noop", <<>>, FALSE, FreshStop(t))]
    /\ UNCHANGED <<is_recording, mic_stream, system_stream, audio_buffer,
                   mic_buffer, system_buffer, waveform_buffer,
                   waveform_callback, mix_audio, use_system, mixers, leaked,
                   micDelivered, sysDelivered, starts, app, sole_start>>
    /\ UNCHANGED single

\* Line 308: the flag is cleared, in a statement of its own after the test.
StopRecordingFlag(t) ==
    /\ callers[t].pc = "stop_flag"
    /\ is_recording' = FALSE
    /\ callers' = [callers EXCEPT ![t].pc = "stop_mic"]
    /\ UNCHANGED <<mic_stream, system_stream, audio_buffer, mic_buffer,
                   system_buffer, waveform_buffer, waveform_callback,
                   mix_audio, use_system, mixers, leaked, micDelivered,
                   sysDelivered, starts, app, sole_start>>
    /\ UNCHANGED single

\* Lines 310-321: the stream self.mic_stream refers to now is stopped and
\* closed (whichever call created it) and the handle dropped; with no handle
\* the block does nothing, and an error in it is caught.
StopRecordingMic(t) ==
    /\ callers[t].pc = "stop_mic"
    /\ mic_stream' = None
    /\ callers' = [callers EXCEPT ![t].pc = "stop_sys"]
    /\ UNCHANGED <<is_recording, system_stream, audio_buffer, mic_buffer,
                   system_buffer, waveform_buffer, waveform_callback,
                   mix_audio, use_system, mixers, leaked, micDelivered,
                   sysDelivered, starts, app, sole_start>>
    /\ UNCHANGED single

\* Lines 323-334.
StopRecordingSys(t) ==
    /\ callers[t].pc = "stop_sys"
    /\ system_stream' = None
    /\ callers' = [callers EXCEPT ![t].pc = "stop_flush"]
    /\ UNCHANGED <<is_recording, mic_stream, audio_buffer, mic_buffer,
                   system_buffer, waveform_buffer, waveform_callback,
                   mix_audio, use_system, mixers, leaked, micDelivered,
                   sysDelivered, starts, app, sole_start>>
    /\ UNCHANGED single

\* Mutant of StopRecordingFlush: the buffers are returned but not cleared.
StopRecordingFlushKeepsBuffers(t) ==
    /\ callers[t].pc = "stop_flush"
    /\ lock = None
    /\ callers' = [callers EXCEPT ![t].pc = ReturnPc, ![t].status = "ok", ![t].data = audio_buffer \o FinalMix(mix_audio, mic_buffer, system_buffer)]
    /\ UNCHANGED <<is_recording, mic_stream, system_stream, audio_buffer,
                   mic_buffer, system_buffer, waveform_buffer,
                   waveform_callback, mix_audio, use_system, mixers, leaked,
                   micDelivered, sysDelivered, starts, app, sole_start>>
    /\ UNCHANGED single

\* Lines 348-377: under the lock, the final mix, the buffers swapped out and
\* cleared; the captured audio returned.
StopRecordingFlush(t) ==
    /\ callers[t].pc = "stop_flush"
    /\ lock = None
    /\ callers' = [callers EXCEPT ![t].pc = ReturnPc, ![t].status = "ok", ![t].data = audio_buffer \o FinalMix(mix_audio, mic_buffer, system_buffer)]
    /\ audio_buffer' = <<>>
    /\ mic_buffer' = <<>>
    /\ system_buffer' = <<>>
    /\ waveform_buffer' = <<>>
    /\ UNCHANGED <<is_recording, mic_stream, system_stream, waveform_callback,
                   mix_audio, use_system, mixers, leaked, micDelivered,
                   sysDelivered, starts, app, sole_start>>
    /\ UNCHANGED single

NextConcurrent ==
    \/ \E t \in Callers : StartRecordingEnter(t)
    \/ \E t \in Callers : StartRecordingMic(t)
    \/ \E t \in Callers : StartRecordingSys(t)
    \/ \E t \in Callers : StartRecordingFlag(t)
    \/ \E t \in Callers : StopRecordingEnter(t)
    \/ \E t \in Callers : StopRecordingFlag(t)
    \/ \E t \in Callers : StopRecordingMic(t)
    \/ \E t \in Callers : StopRecordingSys(t)
    \/ \E t \in Callers : StopRecordingFlush(t)
    \/ \E c \in BOOLEAN, n \in 1..BUFFER_SIZE : MicCallback(c, n)
    \/ \E n \in 1..BUFFER_SIZE : SystemCallback(n)
    \/ MixerCheck
    \/ MixerBody

\* A newly constructed recorder and a configuration for every call.
InitCallers(mode) ==
    /\ is_recording = FALSE
    /\ mic_stream = None
    /\ system_stream = None
    /\ audio_buffer = <<>>
    /\ mic_buffer = <<>>
    /\ system_buffer = <<>>
    /\ waveform_buffer = <<>>
    /\ waveform_callback = None
    /\ mix_audio = TRUE
    /\ use_system = FALSE
    /\ mixers = [check |-> 0, body |-> 0]
    /\ leaked = {}
    /\ teardown = NoTeardown
    /\ spawned = FALSE
    /\ request = NoRequest
    /\ fault = NoFault
    /\ pc = "idle"
    /\ result = NoResult
    /\ micDelivered = <<>>
    /\ sysDelivered = <<>>
    /\ starts = 0
    /\ stop_faults = 0
    /\ lock = None
    /\ snapshot = NoSnapshot
    /\ reentrant = FALSE
    /\ raising = FALSE
    /\ cb_raised_at = 0
    /\ unlocked_write = FALSE
    /\ residue = FALSE
    /\ VadIdle
    /\ callers = [t \in Callers |-> NoCall]
    /\ \E sd \in BOOLEAN, mix \in BOOLEAN : app = [NoApp EXCEPT !.mode = mode, !.system_device = sd, !.mix_audio = mix]
    /\ sole_start = FALSE

InitConcurrent == InitCallers("free")

\* Two threads that call start_recording() and stop_recording() at any time.
SpecConcurrent == InitConcurrent /\ [][NextConcurrent]_vars

----------------------------------------------------------------------------
\* LocalFlowApp in hold mode (src/main.py): the keyboard listener's on_press
\* starts a thread for _on_hotkey_triggered, which runs _start_recording();
\* the listener's on_release runs _stop_recording() itself.

\* Lines 475-498: the hotkey goes down and the handler thread is started.  The
\* listener runs one handler at a time; one hotkey thread at a time is
\* modelled.
OnPress ==
    /\ app.mode = "hold"
    /\ app.key = "up"
    /\ app.presses < MaxPresses
    /\ app.press = "idle"
    /\ app.release = "idle"
    /\ app' = [app EXCEPT !.key = "down", !.presses = @ + 1, !.press = "triggered"]
    /\ UNCHANGED <<recorder, use_system, micDelivered, sysDelivered, starts, callers, sole_start>>
    /\ UNCHANGED single

\* Lines 570-575 and 617-624: in hold mode the handler starts a recording only
\* if the application's flag is clear, and sets the flag first.
OnHotkeyTriggered ==
    /\ app.press = "triggered"
    /\ app' = IF app.is_recording
              THEN [app EXCEPT !.press = "idle"]
              ELSE [app EXCEPT !.is_recording = TRUE, !.press = "detect"]
    /\ UNCHANGED <<recorder, use_system, micDelivered, sysDelivered, starts, callers, sole_start>>
    /\ UNCHANGED single

\* Lines 648-677: without a microphone the flag is cleared and the handler
\* ends; with one the recorder's start_recording() is called.
AppStartRecording(mic_found) ==
    /\ app.press = "detect"
    /\ IF mic_found
       THEN /\ app' = [app EXCEPT !.press = "starting"]
            /\ callers' = [callers EXCEPT ![PressThread].pc = "start_entry"]
       ELSE /\ app' = [app EXCEPT !.is_recording = FALSE, !.press = "idle"]
            /\ UNCHANGED callers
    /\ UNCHANGED <<recorder, use_system, micDelivered, sysDelivered, starts, sole_start>>
    /\ UNCHANGED single

\* Line 677: start_recording() has returned and the handler thread ends.
AppStartRecordingReturn ==
    /\ app.press = "starting"
    /\ callers[PressThread].pc = "returned"
    /\ app' = [app EXCEPT !.press = "idle"]
    /\ callers' = [callers EXCEPT ![PressThread].pc = "idle"]
    /\ UNCHANGED <<recorder, use_system, micDelivered, sysDelivered, starts, sole_start>>
    /\ UNCHANGED single

\* Lines 500-519: the main key goes up; _stop_recording() is called only if
\* the application's flag is set at that moment.
OnRelease ==
    /\ app.mode = "hold"
    /\ app.key = "down"
    /\ app.release = "idle"
    /\ app' = [app EXCEPT !.key = "up", !.release = IF app.is_recording THEN "stop_check" ELSE "idle"]
    /\ UNCHANGED <<recorder, use_system, micDelivered, sysDelivered, starts, callers, sole_start>>
    /\ UNCHANGED single

\* Lines 718-734: the flag is tested again and cleared, then the recorder's
\* stop_recording() is called.
AppStopRecording ==
    /\ app.release = "stop_check"
    /\ IF app.is_recording
       THEN /\ app' = [app EXCEPT !.is_recording = FALSE, !.release = "stopping"]
            /\ callers' = [callers EXCEPT ![Listener].pc = "stop_entry"]
       ELSE /\ app' = [app EXCEPT !.release = "idle"]
            /\ UNCHANGED callers
    /\ UNCHANGED <<recorder, use_system, micDelivered, sysDelivered, starts, sole_start>>
    /\ UNCHANGED single

\* Line 734 on: stop_recording() has returned; what is done with the audio is
\* outside the recorder.
AppStopRecordingReturn ==
    /\ app.release = "stopping"
    /\ callers[Listener].pc = "returned"
    /\ app' = [app EXCEPT !.release = "idle"]
    /\ callers' = [callers EXCEPT ![Listener].pc = "idle"]
    /\ UNCHANGED <<recorder, use_system, micDelivered, sysDelivered, starts, sole_start>>
    /\ UNCHANGED single

NextHoldMode ==
    \/ \E t \in Callers : StartRecordingEnter(t)
    \/ \E t \in Callers : StartRecordingMic(t)
    \/ \E t \in Callers : StartRecordingSys(t)
    \/ \E t \in Callers : StartRecordingFlag(t)
    \/ \E t \in Callers : StopRecordingEnter(t)
    \/ \E t \in Callers : StopRecordingFlag(t)
    \/ \E t \in Callers : StopRecordingMic(t)
    \/ \E t \in Callers : StopRecordingSys(t)
    \/ \E t \in Callers : StopRecordingFlush(t)
    \/ \E c \in BOOLEAN, n \in 1..BUFFER_SIZE : MicCallback(c, n)
    \/ \E n \in 1..BUFFER_SIZE : SystemCallback(n)
    \/ MixerCheck
    \/ MixerBody
    \/ OnPress
    \/ OnHotkeyTriggered
    \/ \E mic_found \in BOOLEAN : AppStartRecording(mic_found)
    \/ AppStartRecordingReturn
    \/ OnRelease
    \/ AppStopRecording
    \/ AppStopRecordingReturn

InitHoldMode == InitCallers("hold")

\* The recorder under the application's hotkey handlers in hold mode.
SpecHoldMode == InitHoldMode /\ [][NextHoldMode]_vars

----------------------------------------------------------------------------
\* SileroVAD of src/backend/engine/vad.py: is_speech(), process_stream(),
\* reset() and find_speech_boundaries().

\* SileroVAD.CHUNK_SIZE (512 in the source), scaled down.
CHUNK_SIZE == 2

\* SileroVAD.SAMPLE_RATE (16000 in the source), scaled down to 2 samples per
\* millisecond; as in the source, a whole number of samples per millisecond.
SAMPLE_RATE == 2000

\* Bounds of the VAD model: the longest buffer, the largest padding_ms and the
\* longest frame handed to is_speech() directly.
MaxAudioLen == 5

MaxPaddingMs == 3

MaxFrameLen == 3

\* The values of a sample; none is zero, so that padding can be told apart.
Samples == {1, 2}

SeqsUpTo(n) == UNION {[1..k -> Samples] : k \in 0..n}

\* np.zeros((2, 1, 128)) of line 99.
ZeroState == <<0>>

\* Lines 176-183: range(0, len(audio_stream), CHUNK_SIZE) yields one frame
\* per chunk, the last one padded if incomplete.
NumFramesFloor(n) == n \div CHUNK_SIZE

NumFrames(n) == (n + CHUNK_SIZE - 1) \div CHUNK_SIZE

\* The padding_ms values at which (padding_ms / 1000.0) * SAMPLE_RATE, computed
\* in binary floating point, falls just below the whole number it equals in
\* exact arithmetic.  In the source these are 1001, 1003, 1005, ... (the
\* quotient padding_ms / 1000.0 is rounded down to the nearest double and the
\* product with 16000 stays below 16 * padding_ms); scaled down to 1.
InexactPaddings == {1}

\* Line 238: int((padding_ms / 1000.0) * SAMPLE_RATE), for padding_ms >= 0.
\* int() truncates, so an inexact product yields one sample less.
PaddingSamples(ms) == IF ms \in InexactPaddings THEN (ms * SAMPLE_RATE) \div 1000 - 1 ELSE (ms * SAMPLE_RATE) \div 1000

\* Lines 219-226: the 0-based indices of the frames classified as speech.
SpeechFrames(results) == {i - 1 : i \in {j \in 1..Len(results) : results[j]}}

SetMin(S) == CHOOSE x \in S : \A y \in S : x <= y

SetMax(S) == CHOOSE x \in S : \A y \in S : x >= y

\* Mutant of Boundaries: the padding is applied without clamping.
BoundariesUnclamped(n, results, ms) ==
    IF SpeechFrames(results) = {} THEN <<0, n>>
    ELSE LET first_sample == SetMin(SpeechFrames(results)) * CHUNK_SIZE
             last_sample == (SetMax(SpeechFrames(results)) + 1) * CHUNK_SIZE
         IN  <<first_sample - PaddingSamples(ms),
               last_sample + PaddingSamples(ms)>>

\* Mutant of Boundaries: without speech the empty range is returned.
BoundariesEmptyWithoutSpeech(n, results, ms) ==
    IF SpeechFrames(results) = {} THEN <<0, 0>>
    ELSE LET first_sample == SetMin(SpeechFrames(results)) * CHUNK_SIZE
             last_sample == (SetMax(SpeechFrames(results)) + 1) * CHUNK_SIZE
         IN  <<Max(0, first_sample - PaddingSamples(ms)),
               Min(n, last_sample + PaddingSamples(ms))>>

\* Mutant of Boundaries: the range ends where the last speech frame starts.
BoundariesEndsAtLastFrameStart(n, results, ms) ==
    IF SpeechFrames(results) = {} THEN <<0, n>>
    ELSE LET first_sample == SetMin(SpeechFrames(results)) * CHUNK_SIZE
             last_sample == SetMax(SpeechFrames(results)) * CHUNK_SIZE
         IN  <<Max(0, first_sample - PaddingSamples(ms)),
               Min(n, last_sample + PaddingSamples(ms))>>

\* Mutant of Boundaries: the padding is taken off the range, not added.
BoundariesPadsInward(n, results, ms) ==
    IF SpeechFrames(results) = {} THEN <<0, n>>
    ELSE LET first_sample == SetMin(SpeechFrames(results)) * CHUNK_SIZE
             last_sample == (SetMax(SpeechFrames(results)) + 1) * CHUNK_SIZE
         IN  <<Max(0, first_sample + PaddingSamples(ms)),
               Min(n, last_sample - PaddingSamples(ms))>>

\* Mutant of Boundaries: the range starts where the first speech frame ends.
BoundariesStartsAtNextFrame(n, results, ms) ==
    IF SpeechFrames(results) = {} THEN <<0, n>>
    ELSE LET first_sample == (SetMin(SpeechFrames(results)) + 1) * CHUNK_SIZE
             last_sample == (SetMax(SpeechFrames(results)) + 1) * CHUNK_SIZE
         IN  <<Max(0, first_sample - PaddingSamples(ms)),
               Min(n, last_sample + PaddingSamples(ms))>>

\* Lines 214-248: the range returned for a buffer of n samples whose frames
\* were classified as `results`.
Boundaries(n, results, ms) ==
    IF SpeechFrames(results) = {} THEN <<0, n>>
    ELSE LET first_sample == SetMin(SpeechFrames(results)) * CHUNK_SIZE
             last_sample == (SetMax(SpeechFrames(results)) + 1) * CHUNK_SIZE
         IN  <<Max(0, first_sample - PaddingSamples(ms)),
               Min(n, last_sample + PaddingSamples(ms))>>

\* len(audio_stream) of the latest call.
audio_len == Len(audio_stream)

Zeros(n) == [i \in 1..n |-> 0]

\* Mutant of FitFrame: a short frame is padded on the left.
FitFramePadsLeft(audio_chunk) == IF Len(audio_chunk) < CHUNK_SIZE THEN Zeros(CHUNK_SIZE - Len(audio_chunk)) \o audio_chunk ELSE SubSeq(audio_chunk, 1, CHUNK_SIZE)

\* Lines 114-119: is_speech() pads a short frame with zeros on the right and
\* truncates a long one.
FitFrame(audio_chunk) == IF Len(audio_chunk) < CHUNK_SIZE THEN audio_chunk \o Zeros(CHUNK_SIZE - Len(audio_chunk)) ELSE SubSeq(audio_chunk, 1, CHUNK_SIZE)

\* Lines 176-182: the k-th chunk (from 0) of the stream, padded if incomplete.
StreamChunk(buf, k) == SubSeq(buf, k * CHUNK_SIZE + 1, Min(Len(buf), (k + 1) * CHUNK_SIZE))

PaddedChunk(buf, k) == StreamChunk(buf, k) \o Zeros(CHUNK_SIZE - Len(StreamChunk(buf, k)))

\* Lines 142-154: session.run() of a deterministic model: the decision
\* (speech_prob > 0.5) and the new state are functions of the input and of
\* the state passed in, and both depend on both.
Infer(input, st) == [speech |-> (SumAbs(input) + st[1]) % 2 = 1, stateN |-> <<(SumAbs(input) + st[1]) % 3>>]

\* Mutant of ResetStates: the state is left as it is.
ResetStatesKeeps(st) == st

\* Lines 91-99: _reset_states() zeroes the state, unless no model is loaded.
ResetStates(st) == IF session = None THEN st ELSE ZeroState

\* Lines 126-128: the state is_speech() passes to the model.
StateIn == IF state = <<>> THEN ResetStates(state) ELSE state

\* Mutant of Run: a failed inference is reported as no speech.
RunFailClosed(audio_chunk, ok) ==
    LET out == Infer(FitFrame(audio_chunk), StateIn)
    IN  [input |-> FitFrame(audio_chunk), before |-> state,
         state |-> StateIn, ok |-> ok,
         returned |-> IF ok THEN out.stateN ELSE <<>>,
         speech |-> IF ok THEN out.speech ELSE FALSE,
         after |-> IF ok THEN out.stateN ELSE StateIn]

\* Mutant of Run: the state the model returns is not kept.
RunForgetsState(audio_chunk, ok) ==
    LET out == Infer(FitFrame(audio_chunk), StateIn)
    IN  [input |-> FitFrame(audio_chunk), before |-> state,
         state |-> StateIn, ok |-> ok,
         returned |-> IF ok THEN out.stateN ELSE <<>>,
         speech |-> IF ok THEN out.speech ELSE TRUE,
         after |-> StateIn]

\* Lines 113-161: one session.run() of is_speech() on a frame: what the model
\* is fed (input, state), whether the inference succeeded, the state it
\* returned, the decision is_speech() returns (True when the inference
\* failed), and self._state before and after the call.
Run(audio_chunk, ok) ==
    LET out == Infer(FitFrame(audio_chunk), StateIn)
    IN  [input |-> FitFrame(audio_chunk), before |-> state,
         state |-> StateIn, ok |-> ok,
         returned |-> IF ok THEN out.stateN ELSE <<>>,
         speech |-> IF ok THEN out.speech ELSE TRUE,
         after |-> IF ok THEN out.stateN ELSE StateIn]

\* LocalFlowApp._stop_recording (src/main.py lines 751-762) and process_audio
\* of the server (src/backend/server.py lines 187-194): the slice of the
\* recording handed to transcription, the whole of it if the range is empty.
AudioToTranscribe(audio_data, range) == IF range[1] < range[2] THEN SubSeq(audio_data, range[1] + 1, range[2]) ELSE audio_data

\* Lines 33-89: load_vad_model() sets the session and zeroes the state, or
\* returns False.
LoadVadModel(ok) ==
    /\ vad_pc = "idle"
    /\ session = None
    /\ session' = IF ok THEN "loaded" ELSE None
    /\ state' = IF ok THEN ZeroState ELSE state
    /\ vad_call' = [op |-> "load_vad_model", status |-> IF ok THEN "ok" ELSE "failed", state0 |-> state]
    /\ audio_stream' = <<>>
    /\ padding_ms' = 0
    /\ speech_results' = <<>>
    /\ boundaries' = <<>>
    /\ runs' = <<>>
    /\ resets' = <<>>
    /\ UNCHANGED <<vad_pc, capture>>

\* Lines 187-189: reset().
Reset ==
    /\ vad_pc = "idle"
    /\ state' = ResetStates(state)
    /\ vad_call' = [op |-> "reset", status |-> "ok", state0 |-> state]
    /\ audio_stream' = <<>>
    /\ padding_ms' = 0
    /\ speech_results' = <<>>
    /\ boundaries' = <<>>
    /\ runs' = <<>>
    /\ resets' = IF session = None THEN <<>> ELSE <<0>>
    /\ UNCHANGED <<session, vad_pc, capture>>

\* Mutant of PassThrough: an empty buffer is processed like any other.
PassThroughOnlyWithoutModel(buf) == session = None

\* Lines 202-207: find_speech_boundaries() returns at once without a model
\* and for an empty buffer.
PassThrough(buf) == session = None \/ Len(buf) = 0

\* Lines 202-212: without a model, or for an empty buffer, the full range is
\* returned; otherwise process_stream() is entered, which zeroes the state
\* (line 173).
FindSpeechBoundariesCall(buf, ms) ==
    /\ vad_pc = "idle"
    /\ audio_stream' = buf
    /\ padding_ms' = ms
    /\ speech_results' = <<>>
    /\ runs' = <<>>
    /\ IF PassThrough(buf)
       THEN /\ boundaries' = <<0, Len(buf)>>
            /\ vad_call' = [op |-> "find_speech_boundaries", status |-> "ok", state0 |-> state]
            /\ resets' = <<>>
            /\ UNCHANGED <<state, vad_pc>>
       ELSE /\ boundaries' = <<>>
            /\ vad_call' = [op |-> "find_speech_boundaries", status |-> "running", state0 |-> state]
            /\ state' = ResetStates(state)
            /\ resets' = IF session = None THEN <<>> ELSE <<0>>
            /\ vad_pc' = "process_stream"
    /\ UNCHANGED <<session, capture>>

\* Lines 172-173: process_stream() called on its own; _reset_states() does
\* nothing when no model is loaded.
ProcessStreamCall(buf) ==
    /\ vad_pc = "idle"
    /\ audio_stream' = buf
    /\ padding_ms' = 0
    /\ speech_results' = <<>>
    /\ boundaries' = <<>>
    /\ runs' = <<>>
    /\ vad_call' = [op |-> "process_stream", status |-> "running", state0 |-> state]
    /\ state' = ResetStates(state)
    /\ resets' = IF session = None THEN <<>> ELSE <<0>>
    /\ vad_pc' = "process_stream"
    /\ UNCHANGED <<session, capture>>

\* Lines 176-183 and 110-161: is_speech() on the next frame of the stream.
\* Without a model it raises RuntimeError, which ends process_stream();
\* otherwise the model runs on the frame and the decision is collected.
IsSpeech(ok) ==
    /\ vad_pc = "process_stream"
    /\ Len(speech_results) < NumFrames(audio_len)
    /\ IF session = None
       THEN /\ vad_call' = [vad_call EXCEPT !.status = "raised"]
            /\ vad_pc' = "idle"
            /\ UNCHANGED <<state, speech_results, runs, resets>>
       ELSE LET run == Run(PaddedChunk(audio_stream, Len(speech_results)), ok)
            IN  /\ runs' = Append(runs, run)
                /\ resets' = IF state = <<>> THEN Append(resets, Len(runs)) ELSE resets
                /\ state' = run.after
                /\ speech_results' = Append(speech_results, run.speech)
                /\ UNCHANGED <<vad_call, vad_pc>>
    /\ UNCHANGED <<session, audio_stream, padding_ms, boundaries, capture>>

\* Line 185: all frames classified, process_stream() returns its results.
ProcessStreamReturn ==
    /\ vad_pc = "process_stream"
    /\ vad_call.op = "process_stream"
    /\ Len(speech_results) = NumFrames(audio_len)
    /\ vad_call' = [vad_call EXCEPT !.status = "ok"]
    /\ vad_pc' = "idle"
    /\ UNCHANGED <<session, state, audio_stream, padding_ms, speech_results, boundaries, runs, resets, capture>>

\* Lines 214-248: all frames classified, the boundaries are returned.
FindSpeechBoundariesReturn ==
    /\ vad_pc = "process_stream"
    /\ vad_call.op = "find_speech_boundaries"
    /\ Len(speech_results) = NumFrames(audio_len)
    /\ boundaries' = Boundaries(audio_len, speech_results, padding_ms)
    /\ vad_call' = [vad_call EXCEPT !.status = "ok"]
    /\ vad_pc' = "idle"
    /\ UNCHANGED <<session, state, audio_stream, padding_ms, speech_results, runs, resets, capture>>

\* Lines 101-161: is_speech() called on its own with a frame of any length.
IsSpeechCall(audio_chunk, ok) ==
    /\ vad_pc = "idle"
    /\ audio_stream' = audio_chunk
    /\ padding_ms' = 0
    /\ boundaries' = <<>>
    /\ IF session = None
       THEN /\ vad_call' = [op |-> "is_speech", status |-> "raised", state0 |-> state]
            /\ runs' = <<>>
            /\ resets' = <<>>
            /\ speech_results' = <<>>
            /\ UNCHANGED state
       ELSE LET run == Run(audio_chunk, ok)
            IN  /\ vad_call' = [op |-> "is_speech", status |-> "ok", state0 |-> state]
                /\ runs' = <<run>>
                /\ resets' = IF state = <<>> THEN <<0>> ELSE <<>>
                /\ state' = run.after
                /\ speech_results' = <<run.speech>>
    /\ UNCHANGED <<session, vad_pc, capture>>

NextVAD ==
    \/ \E ok \in BOOLEAN : LoadVadModel(ok)
    \/ Reset
    \/ \E buf \in SeqsUpTo(MaxAudioLen), ms \in 0..MaxPaddingMs : FindSpeechBoundariesCall(buf, ms)
    \/ \E buf \in SeqsUpTo(MaxAudioLen) : ProcessStreamCall(buf)
    \/ \E ok \in BOOLEAN : IsSpeech(ok)
    \/ ProcessStreamReturn
    \/ FindSpeechBoundariesReturn
    \/ \E audio_chunk \in SeqsUpTo(MaxFrameLen), ok \in BOOLEAN : IsSpeechCall(audio_chunk, ok)

\* The detector on its own: the recorder stays as constructed.
SpecVAD == Init /\ [][NextVAD]_vars

----------------------------------------------------------------------------
\* Properties.

\* A stop_recording() that ended a session has returned.
StopReturned == pc = "idle" /\ result.op = "stop" /\ result.status = "ok"

\* The session it ended mixed two sources.
MixedSession == use_system /\ mix_audio

\* C1: the buffer returned by the stop_recording() that ends a two-source
\* mixed session holds, at every index below min(M, S), the sum of the i-th
\* microphone sample and the i-th system sample delivered since the start.
C1_MixedPairwiseSum ==
    (StopReturned /\ MixedSession) =>
        LET n == Min(Len(micDelivered), Len(sysDelivered)) IN
        /\ Len(result.data) >= n
        /\ \A i \in 1..n : result.data[i] = micDelivered[i] + sysDelivered[i]

\* A mixed session returned with more samples paired than one chunk holds,
\* and with the two sources having delivered different totals.
C1_Witness ==
    /\ StopReturned /\ MixedSession
    /\ Min(Len(micDelivered), Len(sysDelivered)) > BUFFER_SIZE
    /\ Len(micDelivered) # Len(sysDelivered) \/ Len(micDelivered) = MaxSamples

\* C2: when mixing is disabled or no system source is active, the buffer
\* stop_recording() returns is exactly the microphone blocks delivered since
\* the start, in arrival order.
C2_SingleSourceBypass ==
    (StopReturned /\ ~MixedSession) => result.data = micDelivered

\* A session with a system source and mixing disabled returned all its
\* microphone samples while the system source had delivered too.
C2_Witness ==
    /\ StopReturned /\ use_system /\ ~mix_audio
    /\ Len(micDelivered) > BUFFER_SIZE
    /\ Len(sysDelivered) > 0
    /\ result.data = micDelivered

\* C3: with mixing enabled and m >= s > 0 samples queued, the final flush
\* appends the s pairwise sums in queue order and then the m - s leftover
\* microphone samples.
C3_ResidualFlush ==
    [][(/\ pc = "stop_flush" /\ pc' = "idle" /\ mix_audio
        /\ Len(system_buffer) > 0
        /\ Len(mic_buffer) >= Len(system_buffer))
       => result'.data =
              audio_buffer
                  \o [i \in 1..Len(system_buffer) |->
                          mic_buffer[i] + system_buffer[i]]
                  \o SubSeq(mic_buffer, Len(system_buffer) + 1,
                            Len(mic_buffer))]_vars

\* The flush ran with one system sample and more than one microphone sample
\* queued (no chunk could have been mixed before): one sum, then the rest.
C3_Witness ==
    /\ StopReturned /\ MixedSession
    /\ Len(sysDelivered) = 1
    /\ Len(micDelivered) > 1
    /\ result.data = <<micDelivered[1] + sysDelivered[1]>>
                         \o SubSeq(micDelivered, 2, Len(micDelivered))

\* C4: after a mixed session every sample delivered by either source is in
\* the returned buffer: the paired part summed, the rest of the longer
\* source, microphone or system, appended unmixed.
C4_NoSampleLost ==
    (StopReturned /\ MixedSession) =>
        LET m == Len(micDelivered)
            s == Len(sysDelivered)
        IN  /\ Len(result.data) = Max(m, s)
            /\ \A i \in (Min(m, s) + 1)..Max(m, s) :
                   result.data[i] =
                       IF m > s THEN micDelivered[i] ELSE sysDelivered[i]

\* C5: from the return of the stop_recording() that ended a session until
\* the next start_recording(), nothing is appended to the combined buffer,
\* also when stopping a source failed.
C5_NoWritesAfterStop ==
    [][(StopReturned /\ result'.op = "stop")
       => audio_buffer' = audio_buffer]_vars

\* A step of a stop_recording() call entered from the idle caller.
StopStep == pc' = "stop_mic" \/ (result'.op = "stop" /\ result' # result)

\* C6: stop_recording() on a recorder that is not recording returns an empty
\* buffer at once, raises nothing and changes no state of the recorder.
C6_StopWhenIdle ==
    [][(pc = "idle" /\ ~is_recording /\ StopStep)
       => /\ result' = [op |-> "stop", status |-> "noop", data |-> <<>>]
          /\ pc' = "idle"
          /\ UNCHANGED <<recorder, use_system>>]_vars

\* A second stop_recording() after the one that ended a session (the last
\* start met no failure, so a session ran and was stopped).
C6_Witness ==
    /\ pc = "idle" /\ ~is_recording
    /\ result = [op |-> "stop", status |-> "noop", data |-> <<>>]
    /\ starts > 0 /\ request.mic = "ok" /\ fault = NoFault
    /\ micDelivered # <<>>

\* A step of a start_recording() call entered from the idle caller.
StartStep ==
    \/ pc' \in {"start_mic", "rollback"}
    \/ starts' # starts
    \/ (result'.op = "start" /\ result' # result)

\* C7: start_recording() while recording opens no stream, starts no mixer
\* thread and leaves buffers, queues, waveform window, mix flag and
\* amplitude callback as they were.
C7_StartWhenRecording ==
    [][(pc = "idle" /\ is_recording /\ StartStep)
       => /\ pc' = "idle"
          /\ starts' = starts
          /\ UNCHANGED <<recorder, use_system, spawned>>]_vars

\* A start_recording() was ignored while samples were already captured.
C7_Witness ==
    /\ is_recording
    /\ result = [op |-> "start", status |-> "noop", data |-> <<>>]
    /\ audio_buffer # <<>>
    /\ waveform_buffer # <<>>

\* A stream failed to be created or started in the latest start call.
OpenFailed == fault.mic # "none" \/ fault.sys # "none"

\* C8: when creating or starting a source fails, the call raises with every
\* source it had created stopped and closed, both handles cleared, no mixer
\* thread started, and is_recording false throughout.
C8_StartRollback ==
    /\ pc \in {"start_mic", "start_sys", "start_flag", "rollback"}
           => ~is_recording
    /\ (pc = "idle" /\ result.op = "start" /\ OpenFailed) =>
           /\ result.status = "raised"
           /\ ~is_recording
           /\ mic_stream = None
           /\ system_stream = None
           /\ ~spawned
           /\ fault.mic # "create" => teardown.mic = "closed"
           /\ fault.sys = "start" => teardown.sys = "closed"

\* The system stream failed to start after the microphone had delivered; the
\* call raised with both streams closed.
C8_Witness ==
    /\ pc = "idle"
    /\ result = [op |-> "start", status |-> "raised", data |-> <<>>]
    /\ fault = [mic |-> "none", sys |-> "start"]
    /\ teardown = [mic |-> "closed", sys |-> "closed"]
    /\ micDelivered # <<>>
    /\ mic_stream = None /\ system_stream = None

\* C9: when the requested system device is unavailable (it cannot be queried,
\* or its stream fails to open or start) and the microphone is fine,
\* start_recording() returns normally and the session records
\* microphone-only.
C9_SystemDeviceDegrades ==
    (/\ pc = "idle" /\ result.op = "start"
     /\ request.mic = "ok" /\ fault.mic = "none"
     /\ request.sys = "unqueryable" \/ fault.sys # "none")
    => /\ result.status # "raised"
       /\ is_recording
       /\ mic_stream = "active"
       /\ system_stream = None

\* C10: with no usable microphone (none given and no default, or the device
\* cannot be queried) start_recording() raises; no source is opened, no
\* mixer thread is started and is_recording stays false.
C10_NoMicrophoneRaises ==
    request.mic # "ok" =>
        /\ pc = "idle"
        /\ ~is_recording
        /\ mic_stream = None
        /\ system_stream = None
        /\ ~spawned
        /\ fault = NoFault
        /\ result.op = "start" => result.status = "raised"

\* A start without a device, on a system without a default input device, has
\* raised.
C10_Witness ==
    /\ request.mic = "no_default"
    /\ result = [op |-> "start", status |-> "raised", data |-> <<>>]
    /\ pc = "idle" /\ ~is_recording /\ mic_stream = None

\* A stop()/close() try block of the latest stop_recording() call raised.
Raised(t) == t \in {"stop_raises", "close_raises"}

\* C11: stop_recording() never raises.  Whatever stop() or close() of one
\* source does, every source the session had goes through its own stop/close
\* block (and is stopped and closed unless its own block raises), both
\* handles are cleared, and the call ends by returning the combined buffer
\* with the final mix appended, leaving every buffer cleared.
C11_StopNeverRaises ==
    /\ [](/\ result.op = "stop" => result.status # "raised"
          /\ pc = "stop_sys" => mic_stream = None /\ teardown.mic # "none"
          /\ (pc = "stop_flush" \/ StopReturned) =>
                 /\ mic_stream = None /\ system_stream = None
                 /\ teardown.mic # "none"
                 /\ use_system => teardown.sys # "none"
                 /\ ~Raised(teardown.mic) => teardown.mic = "closed"
                 /\ (use_system /\ ~Raised(teardown.sys))
                        => teardown.sys = "closed")
    /\ [][(pc = "stop_flush" /\ pc' # pc)
          => /\ pc' = "idle"
             /\ result' = [op |-> "stop", status |-> "ok",
                           data |-> audio_buffer
                                        \o FinalMix(mix_audio, mic_buffer,
                                                    system_buffer)]
             /\ audio_buffer' = <<>> /\ mic_buffer' = <<>>
             /\ system_buffer' = <<>>]_vars

\* The microphone's stop() raised; the system stream was still stopped and
\* closed and the captured samples were returned.
C11_Witness ==
    /\ StopReturned /\ use_system
    /\ teardown = [mic |-> "stop_raises", sys |-> "closed"]
    /\ mic_stream = None /\ system_stream = None
    /\ result.data # <<>>

\* C12: stop_recording() on a recording session first clears is_recording,
\* then stops and closes every source, and only then flushes, takes the
\* combined buffer and clears the buffers in one step; when it has returned,
\* the two queues, the combined buffer and the waveform window are empty.
C12_StopOrder ==
    /\ pc \in {"stop_mic", "stop_sys", "stop_flush"} =>
           ~is_recording /\ result = NoResult
    /\ pc = "stop_mic" => teardown = NoTeardown
    /\ pc = "stop_sys" =>
           /\ mic_stream = None
           /\ teardown = [mic |-> "closed", sys |-> "none"]
    /\ pc = "stop_flush" =>
           /\ mic_stream = None /\ system_stream = None
           /\ teardown.mic = "closed"
           /\ teardown.sys = IF use_system THEN "closed" ELSE "none"
    /\ StopReturned =>
           /\ ~is_recording
           /\ mic_stream = None /\ system_stream = None
           /\ mic_buffer = <<>> /\ system_buffer = <<>>
           /\ audio_buffer = <<>> /\ waveform_buffer = <<>>

\* A mixed session whose streams were both closed returned samples of both
\* kinds (mixed and leftover) and left every buffer empty.
C12_Witness ==
    /\ StopReturned /\ MixedSession
    /\ teardown = [mic |-> "closed", sys |-> "closed"]
    /\ Len(sysDelivered) > 0
    /\ Len(result.data) > Len(sysDelivered)
    /\ audio_buffer \o mic_buffer \o system_buffer \o waveform_buffer = <<>>

\* The last n entries of s.
LastN(s, n) == SubSeq(s, Max(1, Len(s) - n + 1), Len(s))

\* C13: the waveform window never holds more than its capacity, and each
\* step that changes the combined buffer or the window either clears the
\* window or pushes the amplitude of the block just appended to the combined
\* buffer, evicting the oldest entry of a full window.
C13_WaveformWindow ==
    /\ [](Len(waveform_buffer) <= WAVEFORM_MAXLEN)
    /\ [][(audio_buffer' # audio_buffer \/ waveform_buffer' # waveform_buffer)
          => \/ waveform_buffer' = <<>> /\ audio_buffer' = <<>>
             \/ /\ Len(audio_buffer') > Len(audio_buffer)
                /\ SubSeq(audio_buffer', 1, Len(audio_buffer)) = audio_buffer
                /\ waveform_buffer' =
                       LastN(Append(waveform_buffer,
                                    Amplitude(SubSeq(audio_buffer',
                                                     Len(audio_buffer) + 1,
                                                     Len(audio_buffer')))),
                             WAVEFORM_MAXLEN)]_vars

\* More blocks than the window holds were captured: the window is full and
\* holds the amplitudes of the latest blocks, the first one evicted.
C13_Witness ==
    /\ is_recording /\ ~MixedSession
    /\ Len(audio_buffer) > WAVEFORM_MAXLEN
    /\ audio_buffer = micDelivered
    /\ waveform_buffer = LastN(audio_buffer, WAVEFORM_MAXLEN)

\* C14: no get_waveform_data() call waits for the lock for ever, and a call
\* that returned holds a copy of the window; in particular a call made from
\* inside the amplitude callback does not wait for the lock held by the
\* thread that is making it.
C14_GetWaveformReturns ==
    /\ snapshot.status # "waiting"
    /\ snapshot.status = "returned" => Len(snapshot.data) <= WAVEFORM_MAXLEN

\* C15: while recording in two-source mixed mode with a chunk in each queue,
\* the mixer loop eventually appends the mixed chunk to the combined buffer
\* (or the recording has been stopped meanwhile).
C15_MixerProgress ==
    \A n \in 0..(MaxSamples + 1) :
        (is_recording /\ MixedSession /\ ChunkReady /\ Len(audio_buffer) = n)
            ~> (~is_recording \/ Len(audio_buffer) >= n + BUFFER_SIZE)

\* C16: in a session started with mixing disabled, both queues stay empty.
C16_MixDisabledQueuesEmpty ==
    (is_recording /\ ~mix_audio) => mic_buffer = <<>> /\ system_buffer = <<>>

\* C17: no buffer is changed by code that does not hold the lock.
C17_AllWritesLocked == ~unlocked_write

\* C18: every sample stop_recording() returns is a sample delivered since the
\* matching start_recording(): the i-th returned sample is the i-th
\* microphone sample of the session, plus (in a mixed session) the i-th
\* system sample of the session if there is one.
C18_SessionIsolation ==
    StopReturned =>
        /\ Len(result.data) <= Len(micDelivered)
        /\ \A i \in 1..Len(result.data) :
               result.data[i] =
                   micDelivered[i]
                       + (IF MixedSession /\ i <= Len(sysDelivered)
                          THEN sysDelivered[i] ELSE 0)

\* The start of the session found samples left in a buffer (by a start that
\* was rolled back); the session returned its own samples only.
C18_Witness ==
    /\ StopReturned /\ residue
    /\ result.data # <<>>
    /\ Len(result.data) = Len(micDelivered)

\* A find_speech_boundaries() call on a non-empty buffer has returned.
BoundariesReturned == vad_pc = "idle" /\ boundaries # <<>> /\ audio_len > 0

\* C19: for a non-empty buffer, any padding and any frame decisions, the
\* returned range satisfies 0 <= start <= end <= len(buffer).
C19_BoundariesInRange ==
    BoundariesReturned =>
        /\ 0 <= boundaries[1]
        /\ boundaries[1] <= boundaries[2]
        /\ boundaries[2] <= audio_len

\* Speech in the last frame only, with a padding longer than the buffer: the
\* range is clamped to the whole buffer.
C19_Witness ==
    /\ BoundariesReturned /\ session = "loaded"
    /\ SpeechFrames(speech_results) = {NumFrames(audio_len) - 1}
    /\ NumFrames(audio_len) > 1
    /\ PaddingSamples(padding_ms) > audio_len
    /\ boundaries = <<0, audio_len>>

\* C20: when no frame is classified as speech, the whole buffer is returned
\* whatever the padding.
C20_NoSpeechFullRange ==
    (BoundariesReturned /\ SpeechFrames(speech_results) = {})
        => boundaries = <<0, audio_len>>

\* A loaded model classified every frame of a buffer of several frames as
\* silence, with a non-zero padding.
C20_Witness ==
    /\ BoundariesReturned /\ session = "loaded"
    /\ Len(speech_results) = NumFrames(audio_len)
    /\ Len(speech_results) > 1
    /\ SpeechFrames(speech_results) = {}
    /\ PaddingSamples(padding_ms) > 0
    /\ boundaries = <<0, audio_len>>

\* C21: a find_speech_boundaries() call made while no model is loaded (for
\* any buffer), or on an empty buffer, returns (0, len(buffer)) in that same
\* step without raising, runs no inference and leaves the hidden state as it
\* was.
C21_PassThrough == [][(vad_pc = "idle" /\ vad_call'.op = "find_speech_boundaries" /\ (session = None \/ audio_stream' = <<>>)) => (vad_pc' = "idle" /\ vad_call'.status = "ok" /\ boundaries' = <<0, Len(audio_stream')>> /\ runs' = <<>> /\ resets' = <<>> /\ state' = state)]_vars

\* An empty buffer was passed to a detector whose model is loaded and whose
\* state an earlier stream had left non-zero; (0, 0) came back and the state
\* is still the one found at the call.
C21_Witness ==
    /\ vad_pc = "idle"
    /\ vad_call.op = "find_speech_boundaries"
    /\ vad_call.status = "ok"
    /\ session = "loaded"
    /\ audio_stream = <<>>
    /\ boundaries = <<0, 0>>
    /\ runs = <<>>
    /\ state # ZeroState
    /\ state = vad_call.state0

\* round(padding_ms / 1000 * SAMPLE_RATE) in exact arithmetic.
RoundedPaddingSamples(ms) == (2 * ms * SAMPLE_RATE + 1000) \div 2000

\* C22: when at least one frame is classified as speech,
\* find_speech_boundaries() returns start = max(0, f * CHUNK_SIZE - pad) and
\* end = min(len(buffer), (l + 1) * CHUNK_SIZE + pad), with f and l the first
\* and last speech frames and pad = round(padding_ms / 1000 * SAMPLE_RATE).
C22_RoundedPadding ==
    (BoundariesReturned /\ SpeechFrames(speech_results) # {})
        => boundaries = <<Max(0, SetMin(SpeechFrames(speech_results)) * CHUNK_SIZE - RoundedPaddingSamples(padding_ms)), Min(audio_len, (SetMax(SpeechFrames(speech_results)) + 1) * CHUNK_SIZE + RoundedPaddingSamples(padding_ms))>>

\* A process_stream() pass has ended: called on its own, or from
\* find_speech_boundaries() past its two early returns.
PassEnded ==
    /\ vad_pc = "idle"
    /\ vad_call.status \in {"ok", "raised"}
    /\ \/ vad_call.op = "process_stream"
       \/ vad_call.op = "find_speech_boundaries" /\ session # None /\ audio_stream # <<>>

\* ceil(n / CHUNK_SIZE).
CeilFrames(n) == IF n % CHUNK_SIZE = 0 THEN n \div CHUNK_SIZE ELSE n \div CHUNK_SIZE + 1

\* The i-th (from 1) consecutive non-overlapping frame of buf, with zeros
\* where the buffer has ended.
ExpectedFrame(buf, i) == [j \in 1..CHUNK_SIZE |-> IF (i - 1) * CHUNK_SIZE + j <= Len(buf) THEN buf[(i - 1) * CHUNK_SIZE + j] ELSE 0]

\* The pass zeroed the state once, before any inference (a detector without
\* a model has no state to zero), ran one inference per frame on the frames
\* of the buffer in order, and returned one decision per frame.
FramewisePass ==
    /\ resets = <<0>> \/ (session = None /\ state = <<>>)
    /\ Len(runs) = CeilFrames(audio_len)
    /\ \A i \in 1..Len(runs) : runs[i].input = ExpectedFrame(audio_stream, i)
    /\ vad_call.status = "ok"
    /\ Len(speech_results) = CeilFrames(audio_len)
    /\ \A i \in 1..Len(runs) : speech_results[i] = runs[i].speech

\* C23 as stated: process_stream(buffer) resets the hidden state exactly
\* once, before the first frame, then performs ceil(len(buffer) / CHUNK_SIZE)
\* inferences, one per consecutive non-overlapping frame in order, zero
\* padding only a final partial frame, and returns one boolean per frame.
C23_ProcessStream == PassEnded => FramewisePass

\* C23, amended: the same, for a detector whose model is loaded.
C23_ProcessStreamLoaded == (PassEnded /\ session = "loaded") => FramewisePass

\* A pass over a buffer of more than one frame, the last one partial, by a
\* detector whose state an earlier stream had left non-zero.
C23_Witness ==
    /\ PassEnded
    /\ session = "loaded"
    /\ vad_call.op = "process_stream"
    /\ vad_call.state0 # ZeroState
    /\ audio_len % CHUNK_SIZE # 0
    /\ Len(runs) > 1
    /\ runs[Len(runs)].input[CHUNK_SIZE] = 0
    /\ FramewisePass

RECURSIVE RefPass(_, _, _)
\* The decisions a deterministic model gives for the frames i, i + 1, ... of
\* buf when frame i is run from state st.
RefPass(buf, i, st) == IF i > CeilFrames(Len(buf)) THEN <<>> ELSE <<Infer(ExpectedFrame(buf, i), st).speech>> \o RefPass(buf, i + 1, Infer(ExpectedFrame(buf, i), st).stateN)

\* What a detector used for nothing else returns for buf: a function of the
\* buffer alone.
RefResults(buf) == RefPass(buf, 1, ZeroState)

\* No inference of the latest call failed.
AllRunsOk == \A i \in 1..Len(runs) : runs[i].ok

\* C24: with a deterministic inference backend (a loaded model none of whose
\* inferences fails), the decisions of a process_stream() pass are a function
\* of its buffer alone, and the range find_speech_boundaries() returns is a
\* function of its buffer and padding alone: whatever is_speech(),
\* process_stream() or find_speech_boundaries() calls were made before, two
\* calls on the same buffer return identical results.
C24_Deterministic ==
    (PassEnded /\ session = "loaded" /\ AllRunsOk)
        => /\ speech_results = RefResults(audio_stream)
           /\ vad_call.op = "find_speech_boundaries" => boundaries = Boundaries(audio_len, RefResults(audio_stream), padding_ms)

\* A find_speech_boundaries() call over several frames, both decisions among
\* them, by a detector whose state an earlier call had left non-zero.
C24_Witness ==
    /\ PassEnded
    /\ session = "loaded"
    /\ AllRunsOk
    /\ vad_call.op = "find_speech_boundaries"
    /\ vad_call.state0 # ZeroState
    /\ Len(runs) > 1
    /\ TRUE \in {speech_results[i] : i \in 1..Len(speech_results)}
    /\ FALSE \in {speech_results[i] : i \in 1..Len(speech_results)}
    /\ speech_results = RefResults(audio_stream)

\* C25: when the inference fails on a frame of a stream, is_speech() returns
\* true for that frame and leaves the hidden state exactly as it was before
\* the call, and process_stream() goes on to classify the frames after it and
\* still returns one decision per frame.
C25_FailOpen ==
    /\ \A i \in 1..Len(runs) : ~runs[i].ok => (runs[i].speech /\ runs[i].after = runs[i].before /\ speech_results[i])
    /\ (PassEnded /\ session = "loaded") => (vad_call.status = "ok" /\ Len(runs) = CeilFrames(audio_len) /\ Len(speech_results) = CeilFrames(audio_len))

\* The inference failed on the second of three frames, after a first one
\* that had changed the state; the third frame was classified as no speech.
C25_Witness ==
    /\ PassEnded
    /\ vad_call.op = "process_stream"
    /\ Len(runs) = 3
    /\ runs[1].ok /\ ~runs[2].ok /\ runs[3].ok
    /\ runs[2].before # ZeroState
    /\ state # runs[2].before
    /\ speech_results[2]
    /\ ~speech_results[3]

\* The state returned by the most recent successful inference before the
\* i-th of the latest call, zeros if there is none.
LastReturned(i) == IF {j \in 1..(i - 1) : runs[j].ok} = {} THEN ZeroState ELSE runs[SetMax({j \in 1..(i - 1) : runs[j].ok})].returned

\* C26: within one process_stream() pass the first inference receives the
\* all-zero state, and every later one receives the state returned by the
\* most recent earlier successful inference of that pass (zeros if none),
\* never a state left behind by an earlier stream.
C26_StateThreading ==
    (vad_call.op \in {"process_stream", "find_speech_boundaries"} /\ session = "loaded")
        => \A i \in 1..Len(runs) : runs[i].state = LastReturned(i)

\* A pass of three inferences, the second of which failed, by a detector
\* whose state an earlier stream had left non-zero: the third inference got
\* the state the first had returned, which is neither zero nor the state
\* found at the call.
C26_Witness ==
    /\ PassEnded
    /\ session = "loaded"
    /\ Len(runs) = 3
    /\ runs[1].ok /\ ~runs[2].ok
    /\ runs[1].state = ZeroState
    /\ runs[3].state = runs[1].returned
    /\ runs[3].state # ZeroState
    /\ vad_call.state0 # ZeroState
    /\ vad_call.state0 # runs[3].state

\* C27: if a model is loaded but every inference fails,
\* find_speech_boundaries() returns (0, len(buffer)), for every buffer and
\* every padding_ms >= 0.
C27_BrokenVadFullRange ==
    (vad_pc = "idle" /\ vad_call.op = "find_speech_boundaries" /\ session = "loaded" /\ \A i \in 1..Len(runs) : ~runs[i].ok)
        => (vad_call.status = "ok" /\ boundaries = <<0, audio_len>>)

\* Three inferences, the last on a partial frame, all failed, with no
\* padding asked for: the whole buffer is returned.
C27_Witness ==
    /\ vad_pc = "idle"
    /\ vad_call.op = "find_speech_boundaries"
    /\ session = "loaded"
    /\ Len(runs) = 3
    /\ \A i \in 1..Len(runs) : ~runs[i].ok
    /\ audio_len % CHUNK_SIZE # 0
    /\ padding_ms = 0
    /\ boundaries = <<0, audio_len>>

\* C28: is_speech() always feeds the model exactly CHUNK_SIZE samples: a
\* shorter frame followed by zeros, the first CHUNK_SIZE samples of a longer
\* frame, a frame of CHUNK_SIZE samples unchanged.
C28_FrameFitted ==
    /\ \A i \in 1..Len(runs) : Len(runs[i].input) = CHUNK_SIZE
    /\ (vad_call.op = "is_speech" /\ vad_call.status = "ok")
           => /\ Len(runs) = 1
              /\ \A j \in 1..CHUNK_SIZE : runs[1].input[j] = IF j <= audio_len THEN audio_stream[j] ELSE 0
              /\ audio_len = CHUNK_SIZE => runs[1].input = audio_stream
              /\ audio_len > CHUNK_SIZE => runs[1].input = SubSeq(audio_stream, 1, CHUNK_SIZE)

\* is_speech() was called with a frame of one sample: the model was fed that
\* sample followed by a zero.
C28_Witness ==
    /\ vad_call.op = "is_speech"
    /\ vad_call.status = "ok"
    /\ audio_len = 1
    /\ audio_len < CHUNK_SIZE
    /\ runs[1].input = audio_stream \o <<0>>

\* C29: start_recording() starts a mixer thread if and only if it opened the
\* system source and mixing is enabled; with no system device given, with a
\* system device that cannot be queried, or with mixing disabled, it starts
\* none, and none when it raises.
C29_MixerThreadIffMixing ==
    /\ (spawned /\ pc \in {"start_mic", "start_sys", "start_flag", "rollback"})
           => (system_stream # None /\ mix_audio)
    /\ (pc = "idle" /\ result.op = "start" /\ result.status = "ok")
           => (spawned <=> (request.sys = "ok" /\ mix_audio))
    /\ (pc = "idle" /\ result.op = "start" /\ result.status = "raised")
           => ~spawned

\* A start_recording() with a system device and mixing disabled returned
\* with both streams open and no mixer thread.
C29_Witness ==
    /\ pc = "idle"
    /\ result = [op |-> "start", status |-> "ok", data |-> <<>>]
    /\ request.sys = "ok"
    /\ system_stream # None
    /\ ~mix_audio
    /\ ~spawned
    /\ mixers = [check |-> 0, body |-> 0]

\* The amplitude callback raised while the block or chunk of this step was
\* being handled.
CallbackRaisedStep == cb_raised_at' # cb_raised_at /\ cb_raised_at' # 0

\* C30: when the amplitude callback raises while a block (bypass mode) or a
\* mixed chunk (mixed mode) is being handled, the exception stays inside the
\* driver callback or the mixer loop: the block or chunk is in the combined
\* buffer and its amplitude in the waveform window, the lock is released, no
\* stream is stopped and no mixer thread ends, so later blocks are captured.
C30_CallbackErrorContained ==
    [][CallbackRaisedStep
       => /\ Len(audio_buffer') > Len(audio_buffer)
          /\ SubSeq(audio_buffer', 1, Len(audio_buffer)) = audio_buffer
          /\ waveform_buffer' # <<>>
          /\ waveform_buffer'[Len(waveform_buffer')] = Amplitude(SubSeq(audio_buffer', Len(audio_buffer) + 1, Len(audio_buffer')))
          /\ lock' = None
          /\ UNCHANGED <<is_recording, mic_stream, system_stream, leaked>>
          /\ mixers'.check + mixers'.body = mixers.check + mixers.body]_vars

\* The amplitude callback raised on one block, and a later block of the same
\* session was captured and reported after it.
C30_Witness ==
    /\ is_recording
    /\ waveform_callback # None
    /\ cb_raised_at > 0
    /\ Len(audio_buffer) > cb_raised_at
    /\ Len(waveform_buffer) > 1
    /\ lock = None
    /\ mic_stream # None

\* C31: stop_recording() attempts stop() and close() of each open source
\* independently: when it has returned, every source that was open has had
\* its close() attempted, also one whose stop() raised.
C31_CloseAlwaysAttempted ==
    StopReturned => (teardown.mic # "stop_raises" /\ teardown.sys # "stop_raises")

\* C32: in two-source mixed mode, over every interleaving of callbacks,
\* mixer steps and stop_recording(), the i-th microphone sample delivered
\* since the start is at index i of the returned buffer, summed with a
\* system sample or alone, for every i below the number M of microphone
\* samples delivered: none is dropped, duplicated or reordered.
C32_MicSamplesInPlace ==
    (StopReturned /\ MixedSession) =>
        /\ Len(result.data) >= Len(micDelivered)
        /\ \A i \in 1..Len(micDelivered) :
               \/ result.data[i] = micDelivered[i]
               \/ \E j \in 1..Len(sysDelivered) : result.data[i] = micDelivered[i] + sysDelivered[j]

\* A mixed session returned whose microphone delivered more than a chunk and
\* more than the system source did: the first samples are sums, the last
\* ones stand alone.
C32_Witness ==
    /\ StopReturned /\ MixedSession
    /\ Len(sysDelivered) > 0
    /\ Len(micDelivered) > Len(sysDelivered)
    /\ Len(micDelivered) > BUFFER_SIZE
    /\ result.data[1] = micDelivered[1] + sysDelivered[1]
    /\ result.data[Len(micDelivered)] = micDelivered[Len(micDelivered)]

\* C33: at any time at most one mixer loop thread is alive for a recorder,
\* for every sequence of start_recording() and stop_recording() calls.
C33_AtMostOneMixer == mixers.check + mixers.body <= 1

\* C34: once stop_recording() has cleared is_recording, and if no later
\* start_recording() sets it again, every mixer loop thread eventually exits
\* under fair scheduling: none stays blocked on the lock or in its wait.
C34_MixersTerminate == <>[](~is_recording) => <>[](mixers.check + mixers.body = 0)

\* C39: when find_speech_boundaries() finds at least one speech frame, the
\* returned range [start, end) contains every sample of every frame
\* classified as speech: start <= i * CHUNK_SIZE and
\* end >= min(len(buffer), (i + 1) * CHUNK_SIZE) for each speech frame i.
C39_SpeechFramesKept ==
    (BoundariesReturned /\ SpeechFrames(speech_results) # {}) =>
        \A i \in SpeechFrames(speech_results) :
            /\ boundaries[1] <= i * CHUNK_SIZE
            /\ boundaries[2] >= Min(audio_len, (i + 1) * CHUNK_SIZE)

\* Speech from the second frame to a partial last one, with no padding: the
\* range starts at the second frame and ends with the buffer.
C39_Witness ==
    /\ BoundariesReturned /\ session = "loaded"
    /\ padding_ms = 0
    /\ SpeechFrames(speech_results) # {}
    /\ SetMin(SpeechFrames(speech_results)) = 1
    /\ SetMax(SpeechFrames(speech_results)) = 2
    /\ audio_len % CHUNK_SIZE # 0
    /\ boundaries = <<CHUNK_SIZE, audio_len>>

\* C40: for every non-empty buffer and every padding_ms >= 0,
\* find_speech_boundaries() returns a non-empty range (start < end), so the
\* callers' `start_idx < end_idx` guard takes the trimming branch and the
\* audio handed to transcription is not empty.
C40_RangeNonEmpty ==
    BoundariesReturned =>
        /\ boundaries[1] < boundaries[2]
        /\ AudioToTranscribe(audio_stream, boundaries) = SubSeq(audio_stream, boundaries[1] + 1, boundaries[2])
        /\ AudioToTranscribe(audio_stream, boundaries) # <<>>

\* Speech in one middle frame only and no padding: the range is that frame,
\* shorter than the buffer.
C40_Witness ==
    /\ BoundariesReturned /\ session = "loaded"
    /\ padding_ms = 0
    /\ SpeechFrames(speech_results) = {1}
    /\ NumFrames(audio_len) = 3
    /\ boundaries = <<CHUNK_SIZE, 2 * CHUNK_SIZE>>
    /\ Len(AudioToTranscribe(audio_stream, boundaries)) = CHUNK_SIZE

\* No thread is inside start_recording() or stop_recording().
NoCallInProgress == \A t \in Callers : callers[t].pc \in {"idle", "returned"}

\* C35: whenever no start_recording()/stop_recording() call is in progress,
\* is_recording is true exactly when the microphone stream handle is set, for
\* every interleaving of calls made from different threads.
C35_FlagIffMicHandle ==
    NoCallInProgress => (is_recording <=> mic_stream # None)

\* C36: when two start_recording() calls run concurrently on an idle
\* recorder, at most one of them goes past the is_recording guard (the other
\* is a no-op), and while only start_recording() has been called no stream
\* is left running without a handle.
C36_OneStartProceeds ==
    /\ Cardinality({t \in Callers : callers[t].pc \in StartPcs}) <= 1
    /\ (\A t \in Callers : callers[t].op \in {"none", "start"}) => leaked = {}

\* Each thread has called stop_recording() once in the same session with no
\* start_recording() in progress, one of them at least while it was recording;
\* both calls have returned,
\* and every stream the session opened had its handle held by the recorder.
TwoStopsOneSession ==
    /\ NoCallInProgress
    /\ \A t \in Callers : StoppedBefore(t) /\ callers[t].fresh
    /\ \E t \in Callers : callers[t].passed
    /\ starts > 0
    /\ leaked = {}

\* The buffer d is the whole recording of the session: the microphone blocks
\* themselves without mixing, every microphone sample in place (alone or
\* summed with a system sample) with it.
WholeRecording(d) ==
    IF MixedSession
    THEN /\ Len(d) >= Len(micDelivered)
         /\ \A i \in 1..Len(micDelivered) :
                \/ d[i] = micDelivered[i]
                \/ \E j \in 1..Len(sysDelivered) : d[i] = micDelivered[i] + sysDelivered[j]
    ELSE d = micDelivered

\* C37: when stop_recording() is called from two threads during one
\* recording session, neither call raises, one call returns the whole
\* recording and the other an empty buffer.
C37_TwoStopsReturnOnce ==
    TwoStopsOneSession =>
        /\ \A t \in Callers : callers[t].status \in {"ok", "noop"}
        /\ \E t \in Callers :
               /\ WholeRecording(callers[t].data)
               /\ \A u \in Callers \ {t} : callers[u].data = <<>>

\* Both calls went past the is_recording guard of one session that had
\* captured more than one block, and both have returned.
C37_Witness ==
    /\ TwoStopsOneSession
    /\ \A t \in Callers : callers[t].passed /\ callers[t].status = "ok"
    /\ Len(micDelivered) > BUFFER_SIZE
    /\ \E t \in Callers : callers[t].data # <<>>

\* The main key has been pressed and released and both handlers have ended.
HandlersFinished ==
    /\ app.mode = "hold"
    /\ app.presses > 0
    /\ app.key = "up"
    /\ app.press = "idle"
    /\ app.release = "idle"

\* C38: in hold mode, once the main key has been released and the press
\* handler thread and the release handler have both finished, the recorder is
\* not recording, no input stream is open, and the application's
\* is_recording flag equals the recorder's.
C38_ReleasedMeansStopped ==
    HandlersFinished =>
        /\ ~is_recording
        /\ mic_stream = None
        /\ system_stream = None
        /\ app.is_recording = is_recording

====
